---- MODULE Spec2Model ----
(***************************************************************************)
(* Energy-conversion analytics of the Global Energy Services Tracker.      *)
(*                                                                         *)
(* Part I  : efficiency resolution (DATA_AND_ASSUMPTIONS.md, sections 1,   *)
(*           1.1, 1.2) and the Step 4 loop of the data pipeline            *)
(*           (section 8) that applies it to one (region, year) row.        *)
(* Part II : year-over-year displacement metrics: the Python               *)
(*           calculate_displacement_metrics of the displacement formula    *)
(*           document and the JavaScript DisplacementTracker               *)
(*           .calculateDisplacement of PageLayout.jsx.                     *)
(* Part III: Steps 5 to 7 of the pipeline on the same row (rebound,        *)
(*           exergy weighting, aggregation) and validate_data (section 9). *)
(*           Allocation fractions and rebound rates are in hundredths,     *)
(*           exergy quality factors in tenths; column values after Step 4  *)
(*           are exact fractions.                                          *)
(* Part IV : the web application: the year-over-year tables and the region *)
(*           selection of the displacement charts, the feedback endpoint   *)
(*           and its modal, the chat endpoint and its rate limiter.        *)
(*                                                                         *)
(* Numbers.  Efficiencies are fixed-point integers in parts per million    *)
(* (0.32 is 320000); annual improvement rates are in parts per thousand    *)
(* (+0.005 is 5).  The compound improvement is computed year by year with  *)
(* the product rounded down to a whole part per million.  Energy           *)
(* quantities are whole units (EJ or PJ); ratios and percentages are       *)
(* exact fractions in lowest terms.                                        *)
(***************************************************************************)
EXTENDS Integers, Sequences, FiniteSets, TLC

(***************************************************************************)
(* Bounds of the model.                                                    *)
(***************************************************************************)
\* years modelled after the last year of the temporal table
YearsBeyond == 2
\* largest primary quantity of a source in a row taken through Steps 5 to 7
MaxQuantity == 10
\* largest primary quantity of a row
MaxPrimary == 1000
\* largest year-over-year change of a fossil or clean sub-total
MaxDelta == 10
\* largest gap between a record's total and fossil + clean (rounded data)
MaxSkew == 1
\* years before the last year of the series exported by the tracker
SeriesSpan == 3
\* requests the feedback server receives
MaxRequests == 2
\* last millisecond of the runs of the feedback server (the first is 1)
MaxClock == 2
\* submissions the user makes in the feedback modal
MaxSubmissions == 2
\* steps of time in one window of the rate limiter; the chat server runs
\* for one window
StepsPerWindow == 2

(***************************************************************************)
(* Python values: a call either returns a value or raises.                 *)
(***************************************************************************)
Return(v) == [value |-> v]
Raise(e) == [raised |-> e]
Raised(r) == "raised" \in DOMAIN r

\* dict.get(key, 0): a missing key silently yields 0
LookupDefault(d, k) == IF k \in DOMAIN d THEN Return(d[k]) ELSE Return(0)

\* d[k] of a Python dict: KeyError when the key is missing
Lookup(d, k) == IF k \in DOMAIN d THEN Return(d[k]) ELSE Raise("KeyError")

(***************************************************************************)
(* Part I.  Efficiency tables (parts per million).                         *)
(***************************************************************************)
Scale == 10^6
RateScale == 10^3

EFFICIENCY_FACTORS ==
  [coal |-> 320000, oil |-> 300000, gas |-> 450000, nuclear |-> 330000,
   hydro |-> 700000, wind |-> 700000, solar |-> 700000, biofuels |-> 150000,
   geothermal |-> 700000]

EFFICIENCY_FACTORS_1965 ==
  [coal |-> 280000, oil |-> 260000, gas |-> 400000, nuclear |-> 300000,
   hydro |-> 650000, wind |-> 600000, solar |-> 500000, biofuels |-> 120000,
   geothermal |-> 650000]

\* parts per thousand per year
EFFICIENCY_IMPROVEMENT_RATES ==
  [coal |-> 5, oil |-> 2, gas |-> 3, nuclear |-> 1, hydro |-> 2, wind |-> 4,
   solar |-> 8, biofuels |-> 1, geothermal |-> 2]

\* The ceilings: the worked examples cap coal at 0.32 and wind at 0.70, the
\* v2.0 factors of EFFICIENCY_FACTORS; the other sources follow the same rule.
EFFICIENCY_FACTORS_MAX ==
  [coal |-> 320000, oil |-> 300000, gas |-> 450000, nuclear |-> 330000,
   hydro |-> 700000, wind |-> 700000, solar |-> 700000, biofuels |-> 150000,
   geothermal |-> 700000]

REGIONAL_EFFICIENCY_ADJUSTMENTS ==
  [China |-> [coal |-> 400000, gas |-> 460000, solar |-> 720000],
   UnitedStates |-> [gas |-> 480000, nuclear |-> 340000, wind |-> 720000],
   India |-> [coal |-> 280000, biofuels |-> 100000, solar |-> 680000],
   Africa |-> [biofuels |-> 80000, coal |-> 290000, solar |-> 650000],
   Europe |-> [gas |-> 470000, wind |-> 710000, hydro |-> 720000]]

\* the sources that have coefficients
Sources == DOMAIN EFFICIENCY_FACTORS

\* the source names the OWID columns are mapped to; other_renewables has no
\* entry in any coefficient table
OWID_COLUMN_MAPPING ==
  <<"coal", "oil", "gas", "nuclear", "hydro", "wind", "solar", "biofuels",
    "other_renewables">>

\* the nine sources of the coefficient tables, in table order
TABLE_SOURCES ==
  <<"coal", "oil", "gas", "nuclear", "hydro", "wind", "solar", "biofuels",
    "geothermal">>

BaseYear == 1965
LastTemporalYear == 2024
TemporalYears == BaseYear .. LastTemporalYear
Years == BaseYear .. (LastTemporalYear + YearsBeyond)

\* regions of the regional table, and two regions without any override
Regions == DOMAIN REGIONAL_EFFICIENCY_ADJUSTMENTS \cup {"World", "Japan"}

Min(a, b) == IF a <= b THEN a ELSE b
Max(a, b) == IF a >= b THEN a ELSE b

\* base * (1 + rate) ** years_elapsed, one year at a time
RECURSIVE Compound(_, _, _)
Compound(base, rate, n) ==
  IF n <= 0 THEN base
  ELSE (Compound(base, rate, n - 1) * (RateScale + rate)) \div RateScale

\* the same without the cap at the maximum realistic efficiency
calculate_efficiency_uncapped(source, year) ==
  Compound(EFFICIENCY_FACTORS_1965[source],
           EFFICIENCY_IMPROVEMENT_RATES[source], year - BaseYear)

calculate_efficiency_for_year(source, year) ==
  LET base_efficiency == EFFICIENCY_FACTORS_1965[source]
      improvement_rate == EFFICIENCY_IMPROVEMENT_RATES[source]
      years_elapsed == year - BaseYear
      efficiency == Compound(base_efficiency, improvement_rate, years_elapsed)
      max_efficiency == EFFICIENCY_FACTORS_MAX[source]
  IN  Min(efficiency, max_efficiency)

\* efficiency_factors_temporal.json: pre-calculated for every source and year
\* (1965-2024); its keys are TemporalYears
EFFICIENCY_FACTORS_TEMPORAL ==
  [y \in TemporalYears |->
     [s \in Sources |-> calculate_efficiency_for_year(s, y)]]

\* the priority inverted: the temporal value wins over the regional override
get_efficiency_factor_temporal_first(source, year, region) ==
  IF year \in TemporalYears
  THEN Lookup(EFFICIENCY_FACTORS_TEMPORAL[year], source)
  ELSE IF /\ region \in DOMAIN REGIONAL_EFFICIENCY_ADJUSTMENTS
          /\ source \in DOMAIN REGIONAL_EFFICIENCY_ADJUSTMENTS[region]
       THEN Return(REGIONAL_EFFICIENCY_ADJUSTMENTS[region][source])
       ELSE Lookup(EFFICIENCY_FACTORS, source)

\* a year without temporal factors silently defaults to 0 instead of the
\* global baseline
get_efficiency_factor_zero_default(source, year, region) ==
  IF /\ region \in DOMAIN REGIONAL_EFFICIENCY_ADJUSTMENTS
     /\ source \in DOMAIN REGIONAL_EFFICIENCY_ADJUSTMENTS[region]
  THEN Return(REGIONAL_EFFICIENCY_ADJUSTMENTS[region][source])
  ELSE IF year \in TemporalYears
       THEN Lookup(EFFICIENCY_FACTORS_TEMPORAL[year], source)
       ELSE IF source \in DOMAIN EFFICIENCY_FACTORS
            THEN Return(0)
            ELSE Raise("KeyError")

get_efficiency_factor(source, year, region) ==
  \* Priority 1: regional override
  IF /\ region \in DOMAIN REGIONAL_EFFICIENCY_ADJUSTMENTS
     /\ source \in DOMAIN REGIONAL_EFFICIENCY_ADJUSTMENTS[region]
  THEN Return(REGIONAL_EFFICIENCY_ADJUSTMENTS[region][source])
  \* Priority 2: time-varying
  ELSE IF year \in TemporalYears
       THEN Lookup(EFFICIENCY_FACTORS_TEMPORAL[year], source)
       \* Priority 3: global baseline
       ELSE Lookup(EFFICIENCY_FACTORS, source)

(***************************************************************************)
(* Part II.  Displacement metrics.                                         *)
(*                                                                         *)
(* A Python float or JavaScript number that results from a division is an  *)
(* exact fraction in lowest terms with a positive denominator; Python's    *)
(* None and JavaScript's null are a value of their own.                    *)
(***************************************************************************)
Abs(a) == IF a < 0 THEN -a ELSE a

RECURSIVE GCD(_, _)
GCD(a, b) == IF b = 0 THEN a ELSE GCD(b, a % b)

\* n / d for d > 0
Frac(n, d) ==
  LET g == GCD(Abs(n), d)
  IN  [kind |-> "number", num |-> n \div g, den |-> d \div g]

None == [kind |-> "None"]
IsNumber(v) == v.kind = "number"

EmptyMap == [s \in {} |-> 0]

\* displacement without the floor at zero
displacement_unfloored(delta_clean) == delta_clean

\* displacement = max(0, delta_clean)
displacement(delta_clean) == Max(0, delta_clean)

\* contraction reported as 0% instead of None
ff_growth_pct_zero_on_contraction(delta_fossil, delta_total) ==
  IF delta_total > 0
  THEN Frac(delta_fossil * 100, delta_total)
  ELSE Frac(0, 1)

\* FF_growth (only valid when total growth > 0)
ff_growth_pct(delta_fossil, delta_total) ==
  IF delta_total > 0
  THEN Frac(delta_fossil * 100, delta_total)
  ELSE None

\* net change (always calculable)
net_change(delta_fossil) == delta_fossil

\* the rate of calculate_displacement_rate in DATA_AND_ASSUMPTIONS.md:
\* |delta_fossil| / delta_clean when fossil fell, else 0
displacement_rate_share_of_clean(delta_clean, delta_fossil) ==
  IF delta_clean <= 0 THEN Frac(0, 1)
  ELSE IF delta_fossil < 0
       THEN Frac(Abs(delta_fossil) * 100, delta_clean)
       ELSE Frac(0, 1)

displacement_rate(delta_clean, delta_fossil) ==
  IF delta_clean > 0 /\ delta_fossil > 0
  THEN Frac(delta_clean * 100, delta_fossil)
  ELSE IF delta_clean > 0 /\ delta_fossil <= 0
       THEN Frac(100, 1)
       ELSE Frac(0, 1)

calculate_displacement_metrics(current_year, previous_year) ==
  LET delta_fossil == current_year.fossil - previous_year.fossil
      delta_clean == current_year.clean - previous_year.clean
      delta_total == current_year.total - previous_year.total
  IN  [displacement |-> displacement(delta_clean),
       ff_growth_percent |-> ff_growth_pct(delta_fossil, delta_total),
       net_change_fossil |-> net_change(delta_fossil),
       displacement_rate_percent |-> displacement_rate(delta_clean, delta_fossil),
       delta_fossil |-> delta_fossil,
       delta_clean |-> delta_clean,
       delta_total |-> delta_total]

\* DisplacementTracker.calculateDisplacement: the periods, in years
PeriodKeys == {"current", "5year", "10year", "all"}

periods(timeseries_length) ==
  [p \in PeriodKeys |->
     CASE p = "current" -> [years |-> 1, label |-> "2024"]
       [] p = "5year" -> [years |-> 5, label |-> "Last 5 Years (2019-2024)"]
       [] p = "10year" -> [years |-> 10, label |-> "Last 10 Years (2014-2024)"]
       [] p = "all" -> [years |-> timeseries_length - 1,
                        label |-> "All Years (1965-2024)"]]

\* value > 0 ? (part / value) * 100 : 0
PercentOf(part, value) ==
  IF value > 0 THEN Frac(part * 100, value) ELSE Frac(0, 1)

\* the status of a period; the thresholds are 0.5 EJ
periodStatus(cleanGrowth, netChangeValue) ==
  IF cleanGrowth < 0 THEN "recarbonization"
  ELSE IF 2 * netChangeValue > 1 THEN "rising"
  ELSE IF 2 * Abs(netChangeValue) <= 1 THEN "peak"
  ELSE "declining"

\* the body of the forEach over the period keys
periodCalculation(period, startYear, endYear) ==
  LET fossilGrowthValue == endYear.fossil - startYear.fossil
      cleanGrowth == endYear.clean - startYear.clean
      displacementValue == Max(0, cleanGrowth)
      totalEnergyGrowthValue == endYear.total - startYear.total
      netChangeValue == fossilGrowthValue - displacementValue
  IN  [displacementRate |-> displacementValue,
       fossilGrowth |-> fossilGrowthValue,
       netChange |-> netChangeValue,
       totalEnergyGrowth |-> totalEnergyGrowthValue,
       totalEnergyGrowthPercent |->
         PercentOf(totalEnergyGrowthValue, startYear.total),
       netChangePercent |-> PercentOf(netChangeValue, startYear.fossil),
       cleanRelativeChange |-> PercentOf(cleanGrowth, startYear.clean),
       fossilRelativeChange |-> PercentOf(fossilGrowthValue, startYear.fossil),
       status |-> periodStatus(cleanGrowth, netChangeValue),
       period |-> period.label]

\* the calculations object handed to setPeriodData (JavaScript indexes from
\* 0, the sequence from 1)
calculateDisplacement(data) ==
  [periodKey \in PeriodKeys |->
     LET period == periods(Len(data))[periodKey]
         startIdx == Max(0, Len(data) - 1 - period.years)
         endIdx == Len(data) - 1
     IN  periodCalculation(period, data[startIdx + 1], data[endIdx + 1])]

(***************************************************************************)
(* Part III.  Rebound, exergy weighting, aggregation and validation        *)
(* (Steps 5 to 7 of the pipeline and validate_data).                       *)
(*                                                                         *)
(* A column value is an exact fraction.  A pandas division by zero does    *)
(* not raise: 0/0 is NaN and x/0 is inf, and both propagate.  All          *)
(* quantities of the data frame are non-negative.                          *)
(***************************************************************************)
NaN == [kind |-> "nan"]
Inf == [kind |-> "inf"]

\* a * b
FracMul(a, b) ==
  LET g1 == GCD(Abs(a.num), b.den)
      g2 == GCD(Abs(b.num), a.den)
  IN  Frac((a.num \div g1) * (b.num \div g2), (a.den \div g2) * (b.den \div g1))

\* a + b
FracAdd(a, b) ==
  LET g == GCD(a.den, b.den)
  IN  Frac(a.num * (b.den \div g) + b.num * (a.den \div g),
           (a.den \div g) * b.den)

FracNeg(a) == [a EXCEPT !.num = -a.num]
FracSub(a, b) == FracAdd(a, FracNeg(b))
FracAbs(a) == [a EXCEPT !.num = Abs(a.num)]

\* a <= b
FracLE(a, b) == FracSub(a, b).num <= 0
\* a < b
FracLT(a, b) == FracSub(a, b).num < 0

Zero == Frac(0, 1)
One == Frac(1, 1)

\* a / b of two float columns
FloatDiv(a, b) ==
  IF a.kind = "nan" \/ b.kind = "nan" THEN NaN
  ELSE IF b.kind = "inf" THEN (IF a.kind = "inf" THEN NaN ELSE Zero)
  ELSE IF a.kind = "inf" THEN Inf
  ELSE IF b.num = 0 THEN (IF a.num = 0 THEN NaN ELSE Inf)
  ELSE LET g1 == GCD(a.num, b.num)
           g2 == GCD(a.den, b.den)
       IN  Frac((a.num \div g1) * (b.den \div g2),
                (a.den \div g2) * (b.num \div g1))

\* a * k of a float column and a positive number
FloatMul(a, k) == IF IsNumber(a) THEN FracMul(a, k) ELSE a

\* a + b of two float columns (inf + inf = inf)
FloatAdd(a, b) ==
  IF a.kind = "nan" \/ b.kind = "nan" THEN NaN
  ELSE IF a.kind = "inf" \/ b.kind = "inf" THEN Inf
  ELSE FracAdd(a, b)

\* sum of f[s] over the sources of a list, as [...].sum(axis=1) adds columns
RECURSIVE ColumnSum(_, _)
ColumnSum(f, sources) ==
  IF sources = <<>> THEN Zero
  ELSE FracAdd(f[Head(sources)], ColumnSum(f, Tail(sources)))

\* exergy_factors_sectoral.json, in tenths
EXERGY_QUALITY_FACTORS ==
  [electricity |-> 10, mechanical |-> 10, high_temp_heat |-> 6,
   low_temp_heat |-> 2]

\* source_sector_allocation.json, in hundredths
SOURCE_SECTOR_ALLOCATION ==
  [coal |-> [electricity |-> 80, high_temp_heat |-> 15, low_temp_heat |-> 5],
   oil |-> [mechanical |-> 70, high_temp_heat |-> 20, low_temp_heat |-> 10],
   gas |-> [electricity |-> 50, low_temp_heat |-> 40, high_temp_heat |-> 10],
   nuclear |-> [electricity |-> 100],
   hydro |-> [electricity |-> 100],
   wind |-> [electricity |-> 100],
   solar |-> [electricity |-> 100],
   biofuels |-> [low_temp_heat |-> 60, mechanical |-> 25,
                 high_temp_heat |-> 15],
   geothermal |-> [electricity |-> 70, low_temp_heat |-> 30]]

\* the same file with a data-entry slip: the transport share of oil entered
\* as 0.90 for 0.70, so that the fractions of oil sum to 1.20
SOURCE_SECTOR_ALLOCATION_MISENTERED ==
  [SOURCE_SECTOR_ALLOCATION EXCEPT !["oil"]["mechanical"] = 90]

AllocationScale == 10^2
QualityScale == 10^1

RECURSIVE SumOver(_, _)
SumOver(f, keys) ==
  IF keys = {} THEN 0
  ELSE LET k == CHOOSE x \in keys : TRUE
       IN  f[k] + SumOver(f, keys \ {k})

\* sum(allocation.values()), in hundredths
allocation_sum(allocation) == SumOver(allocation, DOMAIN allocation)

\* the sum of the fractions alone, the quality factors left out
weighted_exergy_unweighted(allocation, exergy_factors) ==
  Frac(allocation_sum(allocation), AllocationScale)

\* sum(allocation[sector] * exergy_factors[sector] for sector in allocation)
weighted_exergy(allocation, exergy_factors) ==
  Frac(SumOver([sector \in DOMAIN allocation |->
                  allocation[sector] * exergy_factors[sector]],
               DOMAIN allocation),
       AllocationScale * QualityScale)

\* config_rebound_effect.json, the rates in hundredths
CONFIG_REBOUND_EFFECT ==
  [global_rebound_rate |-> 7,
   regional_variations |-> [developed |-> 5, developing |-> 10]]

\* the same file without the optional regional variations
CONFIG_REBOUND_EFFECT_GLOBAL_ONLY ==
  [global_rebound_rate |-> 7, regional_variations |-> EmptyMap]

ReboundScale == 10^2

\* df[f'{source}_useful_ej'] * (1 - rebound_rate)
useful_net_ej(useful_ej, rebound_rate) ==
  FracMul(useful_ej, Frac(ReboundScale - rebound_rate, ReboundScale))

\* the services taken from the gross useful column
services_ej_from_gross(columns, weighted) ==
  FracMul(columns.useful_ej, weighted)

\* the net useful column divided by the weighted factor
services_ej_divided(columns, weighted) ==
  FloatDiv(columns.useful_net_ej, weighted)

\* df[f'{source}_useful_net_ej'] * weighted_exergy
services_ej(columns, weighted) ==
  FracMul(columns.useful_net_ej, weighted)

FOSSIL_SOURCES == <<"coal", "oil", "gas">>

\* the clean sources without geothermal
CLEAN_SOURCES_WITHOUT_GEOTHERMAL ==
  <<"nuclear", "hydro", "wind", "solar", "biofuels">>

CLEAN_SOURCES ==
  <<"nuclear", "hydro", "wind", "solar", "biofuels", "geothermal">>

Percent == Frac(100, 1)

\* Step 7: the aggregate columns of a row, from the per-source columns
AggregateAndCalculate(sources, net, srv) ==
  LET total_useful_ej == ColumnSum(net, sources)
      total_services_ej == ColumnSum(srv, sources)
      fossil_useful_ej == ColumnSum(net, FOSSIL_SOURCES)
      clean_useful_ej == ColumnSum(net, CLEAN_SOURCES)
      fossil_services_ej == ColumnSum(srv, FOSSIL_SOURCES)
      clean_services_ej == ColumnSum(srv, CLEAN_SOURCES)
      clean_share_useful ==
        FloatMul(FloatDiv(clean_useful_ej, total_useful_ej), Percent)
      clean_share_services ==
        FloatMul(FloatDiv(clean_services_ej, total_services_ej), Percent)
  IN  [total_useful_ej |-> total_useful_ej,
       total_services_ej |-> total_services_ej,
       fossil_useful_ej |-> fossil_useful_ej,
       clean_useful_ej |-> clean_useful_ej,
       fossil_services_ej |-> fossil_services_ej,
       clean_services_ej |-> clean_services_ej,
       clean_share_useful |-> clean_share_useful,
       clean_share_services |-> clean_share_services,
       \* the shares of Check 3
       clean_share_percent |-> clean_share_useful,
       fossil_share_percent |->
         FloatMul(FloatDiv(fossil_useful_ej, total_useful_ej), Percent),
       clean_leverage |-> FloatDiv(clean_share_services, clean_share_useful)]

\* numpy's defaults
DefaultRtol == Frac(1, 10^5)
DefaultAtol == Frac(1, 10^8)

\* np.isclose(a, b, rtol, atol): |a - b| <= atol + rtol * |b|, False when
\* either is NaN.  The comparison is excess <= atol for
\* excess = |a - b| - rtol * |b|.
np_isclose(a, b, rtol, atol) ==
  /\ IsNumber(a)
  /\ IsNumber(b)
  /\ LET excess == FracSub(FracAbs(FracSub(a, b)), FracMul(rtol, FracAbs(b)))
     IN  excess.num <= (atol.num * excess.den) \div atol.den

PJ_PER_EJ == 10^3

\* Check 4 with the global total left in EJ
regional_check_unscaled(global_ej, regional_pj) ==
  np_isclose(global_ej, regional_pj, Frac(5, 100), DefaultAtol)

\* Check 4: np.isclose(global_ej * 1000, regional_pj, rtol=0.05)
regional_check(global_ej, regional_pj) ==
  np_isclose(FracMul(global_ej, Frac(PJ_PER_EJ, 1)), regional_pj,
             Frac(5, 100), DefaultAtol)

\* validate_data(df): the first assert that fails raises AssertionError
validate_data(df, global_ej, regional_pj) ==
  \* Check 1: no negative values
  IF \E c \in DOMAIN df : IsNumber(df[c]) /\ df[c].num < 0
  THEN Raise("Negative energy values found")
  \* Check 2: total = fossil + clean
  ELSE IF ~np_isclose(df.total_useful_ej,
                      FracAdd(df.fossil_useful_ej, df.clean_useful_ej),
                      Frac(1, 100), DefaultAtol)
  THEN Raise("Total /= Fossil + Clean")
  \* Check 3: the shares sum to 100 within 1.0
  ELSE IF ~np_isclose(FloatAdd(df.clean_share_percent,
                               df.fossil_share_percent),
                      Percent, DefaultRtol, One)
  THEN Raise("Shares don't sum to 100%")
  \* Check 4: the regional totals (PJ) match the global total (EJ)
  ELSE IF ~regional_check(global_ej, regional_pj)
  THEN Raise("Regional sum /= Global")
  ELSE Return("All validation checks passed")

(***************************************************************************)
(* Part IV.  The web application: the year-over-year tables of the         *)
(* DisplacementTracker (PageLayout.jsx) and of DisplacementByRegion, the    *)
(* region selection, the feedback endpoint and its modal, and the chat      *)
(* endpoint with its rate limiter.                                          *)
(***************************************************************************)
\* Array.prototype.filter
Filter(list, Keep(_)) == SelectSeq(list, Keep)

\* Array.prototype.includes
Includes(list, x) == \E i \in 1 .. Len(list) : list[i] = x

\* Array.prototype.slice(0, n)
Slice(list, n) == SubSeq(list, 1, Min(n, Len(list)))

\* Array.prototype.find on the year of a record: the first record of the
\* year, None (undefined) when there is none
FindYear(data, y) ==
  IF \E i \in 1 .. Len(data) : data[i].year = y
  THEN data[CHOOSE i \in 1 .. Len(data) :
              /\ data[i].year = y
              /\ \A j \in 1 .. (i - 1) : data[j].year # y]
  ELSE None

\* Number.prototype.toFixed(digits) of a whole quantity: the decimal string,
\* read as a count of units of 10^-digits ("5.0000" is 50000)
toFixed(value, digits) == value * 10 ^ digits

\* the status column of DisplacementTracker.downloadCSV (the test
\* |d - f| < 0.01 on whole quantities)
csvStatus(displacementValue, fossilGrowthValue) ==
  IF displacementValue < fossilGrowthValue
  THEN "Displacement < Fossil Fuel Growth (Consumption Rising)"
  ELSE IF 100 * Abs(displacementValue - fossilGrowthValue) < 1
       THEN "Displacement = Fossil Fuel Growth (Peak Reached)"
       ELSE "Displacement > Fossil Fuel Growth (Consumption Declining)"

\* the row pushed by one iteration of the loop of downloadCSV
csvRow(prev, curr) ==
  LET fossilGrowthValue == curr.fossil - prev.fossil
      cleanGrowthValue == curr.clean - prev.clean
      displacementValue == Max(0, cleanGrowthValue)
      netChangeValue == fossilGrowthValue - displacementValue
  IN  [Year |-> curr.year,
       Displacement |-> toFixed(displacementValue, 4),
       FossilGrowth |-> toFixed(fossilGrowthValue, 4),
       CleanGrowth |-> toFixed(cleanGrowthValue, 4),
       NetChange |-> toFixed(netChangeValue, 4),
       Status |-> csvStatus(displacementValue, fossilGrowthValue),
       FossilTotal |-> toFixed(curr.fossil, 4),
       CleanTotal |-> toFixed(curr.clean, 4)]

\* DisplacementTracker.downloadCSV: the rows after the header,
\* for (let i = 1; i < timeseries.length; i++) with prev = timeseries[i - 1]
downloadCSV(data) ==
  [i \in 1 .. (Len(data) - 1) |-> csvRow(data[i], data[i + 1])]

\* Missing Data Handling of the displacement formula document: the metrics
\* of a year are NaN when the year is 1965 or the previous year's data is
\* missing
metrics_or_nan(current_year, previous_year_data) ==
  IF current_year.year = BaseYear \/ previous_year_data = None
  THEN [displacement |-> NaN, ff_growth_percent |-> NaN,
        net_change_fossil |-> NaN]
  ELSE calculate_displacement_metrics(current_year, previous_year_data)

\* DisplacementByRegion: the regions shown by default and the categories
DEFAULT_REGIONS == <<"China", "United States", "Europe", "India", "Japan">>

REGION_CATEGORIES ==
  [c \in {"Major Economies", "Continental", "Economic Groups"} |->
     CASE c = "Major Economies" ->
            <<"China", "United States", "India", "Japan", "Germany",
              "United Kingdom", "France", "Brazil", "Canada", "South Korea",
              "Russia", "Indonesia", "Mexico", "Saudi Arabia", "Australia",
              "Spain", "South Africa">>
       [] c = "Continental" ->
            <<"Africa", "Asia", "Europe", "North America", "South America",
              "Oceania">>
       [] c = "Economic Groups" ->
            <<"European Union", "OECD", "Non-OECD">>]

\* the most regions a selection holds ("max 8")
MAX_SELECTED_REGIONS == 2 ^ 3

\* `x || 0` of a quantity
OrZero(x) == IF x = None THEN Zero ELSE x

\* DisplacementByRegion.timelineData: one point per year (from 2000) of the
\* first selected region's series; a point has the fossil change of a
\* selected region when the region has a record of the year and one of the
\* year before
timelineData(data, selected) ==
  IF data = None \/ Len(selected) = 0 THEN <<>>
  ELSE
    LET firstRegion == selected[1]
        years ==
          IF firstRegion \in DOMAIN data
          THEN Filter(data[firstRegion], LAMBDA d : d.year >= 2000)
          ELSE <<>>
        Charted(y) ==
          {r \in DOMAIN data :
             /\ Includes(selected, r)
             /\ FindYear(data[r], y) # None
             /\ FindYear(data[r], y - 1) # None}
    IN  [i \in 1 .. Len(years) |->
           LET y == years[i].year
           IN  [year |-> y,
                change |->
                  [r \in Charted(y) |->
                     FracSub(
                       OrZero(FindYear(data[r], y).fossil_useful_ej),
                       OrZero(FindYear(data[r], y - 1).fossil_useful_ej))]]]

\* toggleRegion without the limit on additions
toggleRegion_unlimited(selected, r) ==
  IF Includes(selected, r)
  THEN IF Len(selected) > 1
       THEN Filter(selected, LAMBDA x : x # r)
       ELSE selected
  ELSE Append(selected, r)

\* toggleRegion: the next selection
toggleRegion(selected, r) ==
  IF Includes(selected, r)
  THEN IF Len(selected) > 1
       THEN Filter(selected, LAMBDA x : x # r)
       ELSE selected
  ELSE IF Len(selected) < MAX_SELECTED_REGIONS
       THEN Append(selected, r)
       ELSE selected

\* selectCategory: the next selection
selectCategory(category) ==
  Slice(REGION_CATEGORIES[category], MAX_SELECTED_REGIONS)

(***************************************************************************)
(* The feedback endpoint (server/feedback.js).  A string is a sequence of  *)
(* characters; a JSON text is a sequence of tokens: the braces and one     *)
(* token per "key": "value" member.                                        *)
(***************************************************************************)
LBrace == [t |-> "{", key |-> "", value |-> <<>>]
RBrace == [t |-> "}", key |-> "", value |-> <<>>]
Member(k, v) == [t |-> "member", key |-> k, value |-> v]

\* JSON.parse of the text of an object: the members between the braces,
\* the last member of a key winning; SyntaxError for any other text
JSONparse(text) ==
  IF /\ Len(text) >= 2
     /\ text[1] = LBrace
     /\ text[Len(text)] = RBrace
     /\ \A i \in 2 .. (Len(text) - 1) : text[i].t = "member"
  THEN Return(
         [k \in {text[i].key : i \in 2 .. (Len(text) - 1)} |->
            text[CHOOSE i \in 2 .. (Len(text) - 1) :
                   /\ text[i].key = k
                   /\ \A j \in (i + 1) .. (Len(text) - 1) : text[j].key # k
                ].value])
  ELSE Raise("SyntaxError")

\* the keys of a submission, in the order the members are written
JsonKeys == <<"id", "feedback", "page">>

\* JSON.stringify of an object
JSONstringify(object) ==
  <<LBrace>>
    \o [i \in 1 .. Len(Filter(JsonKeys, LAMBDA k : k \in DOMAIN object)) |->
          LET k == Filter(JsonKeys, LAMBDA key : key \in DOMAIN object)[i]
          IN  Member(k, object[k])]
    \o <<RBrace>>

\* the decimal digits
Digit(d) ==
  CASE d = 0 -> "0" [] d = 1 -> "1" [] d = 2 -> "2" [] d = 3 -> "3"
    [] d = 4 -> "4" [] d = 5 -> "5" [] d = 6 -> "6" [] d = 7 -> "7"
    [] d = 8 -> "8" [] d = 9 -> "9"

\* Number.prototype.toString of a non-negative integer
RECURSIVE toString(_)
toString(n) ==
  IF n < 10 THEN <<Digit(n)>>
  ELSE toString(n \div 10) \o <<Digit(n % 10)>>

\* JSON.parse(fs.readFileSync(FEEDBACK_FILE, 'utf8')): the file is the
\* array of the texts of its records
readFeedback(file) ==
  [i \in 1 .. Len(file) |-> JSONparse(file[i]).value]

\* the text written by fs.writeFileSync(FEEDBACK_FILE, JSON.stringify(...))
writeFeedback(list) ==
  [i \in 1 .. Len(list) |-> JSONstringify(list[i])]

\* existingFeedback.push(newFeedback), dropping the records read
push_over_existing(existingFeedback, newFeedback) == <<newFeedback>>

\* existingFeedback.push(newFeedback)
push(existingFeedback, newFeedback) == Append(existingFeedback, newFeedback)

\* { id: Date.now().toString(), ...feedbackData }: a member of the body
\* replaces the member of the same key written before the spread
newFeedbackOf(now, feedbackData) ==
  feedbackData @@ [id |-> toString(now)]

\* the 'end' listener of a POST: what it leaves in the file, the reads and
\* writes of the file it made, and its response
onEnd(body, file, now) ==
  LET feedbackData == JSONparse(body)
  IN  IF Raised(feedbackData)
      THEN [file |-> file, reads |-> 0, writes |-> 0,
            status |-> 500,
            json |-> [error |-> "Failed to save feedback"]]
      ELSE LET newFeedback == newFeedbackOf(now, feedbackData.value)
           IN  [file |-> writeFeedback(push(readFeedback(file), newFeedback)),
                reads |-> 1, writes |-> 1,
                status |-> 200,
                json |-> [success |-> TRUE, id |-> newFeedback.id]]

\* the GET branch
onGet(file) ==
  [file |-> file, reads |-> 1, writes |-> 0,
   status |-> 200, json |-> [list |-> readFeedback(file)]]

\* the 405 branch, mutated to reset the file
onOtherMethod_resetting(file) ==
  [file |-> <<>>, reads |-> 0, writes |-> 1,
   status |-> 405, json |-> [error |-> "Method not allowed"]]

\* the 405 answered without the file being opened
onOtherMethod(file) ==
  [file |-> file, reads |-> 0, writes |-> 0,
   status |-> 405, json |-> [error |-> "Method not allowed"]]

(***************************************************************************)
(* The feedback modal (FeedbackModal.handleSubmit).                        *)
(***************************************************************************)
\* String.prototype.trim: the text without its leading and trailing blanks
RECURSIVE trim(_)
trim(text) ==
  IF text = <<>> THEN <<>>
  ELSE IF Head(text) = " " THEN trim(Tail(text))
  ELSE IF text[Len(text)] = " " THEN trim(SubSeq(text, 1, Len(text) - 1))
  ELSE text

\* the object posted to /api/feedback and pushed to the fallback list
\* (timestamp and user agent left out)
submission(text) == [feedback |-> trim(text), page |-> <<"/">>]

\* localStorage.getItem('feedbackSubmissions') || '[]', parsed
getStoredFeedback(storage) ==
  IF storage = None THEN <<>> ELSE readFeedback(storage.text)

\* the fallback: the submission is pushed to the stored list and the list
\* is written back; setItem throws QuotaExceededError when the storage of
\* the origin is full
saveToLocalStorage(storage, full, text) ==
  IF full
  THEN Raise("QuotaExceededError")
  ELSE Return([kind |-> "string",
               text |-> writeFeedback(
                          push(getStoredFeedback(storage), submission(text)))])

\* what the continuation of handleSubmit leaves behind once fetch has
\* settled: `ok` is response.ok, `threw` says that fetch rejected.  An
\* exception of the else branch is caught by the catch block, which runs the
\* fallback again; an exception of the catch block leaves handleSubmit after
\* the finally block.
afterFetch(ok, threw, state) ==
  LET saved == saveToLocalStorage(state.localStorage, state.full,
                                  state.feedback)
  IN  IF ~threw /\ ok
      THEN [localStorage |-> state.localStorage, isSubmitted |-> TRUE,
            feedback |-> <<>>, isSubmitting |-> FALSE]
      ELSE IF ~Raised(saved)
      THEN [localStorage |-> saved.value, isSubmitted |-> TRUE,
            feedback |-> <<>>, isSubmitting |-> FALSE]
      ELSE [localStorage |-> state.localStorage,
            isSubmitted |-> state.isSubmitted,
            feedback |-> state.shown, isSubmitting |-> FALSE]

(***************************************************************************)
(* The chat endpoint and its rate limiter (server/chat.js, api/chat.js).   *)
(***************************************************************************)
\* the window of the limiter, in milliseconds
RATE_LIMIT_WINDOW == 60000
\* requests admitted per window and identifier
MAX_REQUESTS_PER_WINDOW == 10

\* rateLimitStore.get(identifier) || []
userRequestsOf(store, identifier) ==
  IF identifier \in DOMAIN store THEN store[identifier] ELSE <<>>

\* the limiter admitting one request more than the maximum
checkRateLimit_one_more(store, identifier, now) ==
  LET recentRequests ==
        Filter(userRequestsOf(store, identifier),
               LAMBDA timestamp : now - timestamp < RATE_LIMIT_WINDOW)
  IN  IF Len(recentRequests) > MAX_REQUESTS_PER_WINDOW
      THEN [allowed |-> FALSE, store |-> store]
      ELSE [allowed |-> TRUE,
            store |-> (identifier :> Append(recentRequests, now)) @@ store]

\* the limiter recording the requests it rejects
checkRateLimit_recording(store, identifier, now) ==
  LET recentRequests ==
        Filter(userRequestsOf(store, identifier),
               LAMBDA timestamp : now - timestamp < RATE_LIMIT_WINDOW)
  IN  [allowed |-> Len(recentRequests) < MAX_REQUESTS_PER_WINDOW,
       store |-> (identifier :> Append(recentRequests, now)) @@ store]

\* checkRateLimit: whether the request is admitted, and the store after it
checkRateLimit(store, identifier, now) ==
  LET recentRequests ==
        Filter(userRequestsOf(store, identifier),
               LAMBDA timestamp : now - timestamp < RATE_LIMIT_WINDOW)
  IN  IF Len(recentRequests) >= MAX_REQUESTS_PER_WINDOW
      THEN [allowed |-> FALSE, store |-> store]
      ELSE [allowed |-> TRUE,
            store |-> (identifier :> Append(recentRequests, now)) @@ store]

\* req.headers['x-forwarded-for'] || req.connection.remoteAddress ||
\* 'unknown' ("" stands for a header or an address that is undefined)
identifierOf(req) ==
  IF req.forwardedFor # "" THEN req.forwardedFor
  ELSE IF req.remoteAddress # "" THEN req.remoteAddress
  ELSE "unknown"

\* the answer of handleChat to an error of the Anthropic call
upstreamError(status) ==
  IF status = 401 THEN [status |-> 500, error |-> "API authentication failed"]
  ELSE IF status = 429
       THEN [status |-> 429,
             error |-> "API rate limit exceeded. Please try again later."]
       ELSE [status |-> 500, error |-> "Failed to process request"]

\* handleChat after the rate limit check has passed: the body is read
\* and validated, then anthropic.messages.create is called.  A body that is
\* not JSON makes JSON.parse throw inside the try block.
handleAdmitted(req, upstream) ==
  IF ~req.body.json
  THEN upstreamError(0) @@ [called |-> FALSE]
  ELSE IF req.body.messages # "array"
  THEN [status |-> 400, error |-> "Invalid request: messages array required",
        called |-> FALSE]
  ELSE IF req.body.systemPrompt = "undefined"
  THEN [status |-> 400, error |-> "Invalid request: systemPrompt required",
        called |-> FALSE]
  ELSE IF upstream = 200
  THEN [status |-> 200, error |-> "", called |-> TRUE]
  ELSE upstreamError(upstream) @@ [called |-> TRUE]

\* handleChat from the rate limit check on
handlePost(req, upstream, store, now) ==
  LET limit == checkRateLimit(store, identifierOf(req), now)
  IN  IF ~limit.allowed
      THEN [status |-> 429,
            error |-> "Rate limit exceeded. Please try again later.",
            called |-> FALSE, store |-> limit.store, passed |-> FALSE]
      ELSE handleAdmitted(req, upstream)
             @@ [store |-> limit.store, passed |-> TRUE]

\* handleChat with the rate limit checked before the method
handleChat_limiter_first(req, upstream, store, now) ==
  IF req.method # "POST"
  THEN [status |-> 405, error |-> "Method not allowed", called |-> FALSE,
        store |-> checkRateLimit(store, identifierOf(req), now).store,
        passed |-> FALSE]
  ELSE handlePost(req, upstream, store, now)

\* handleChat: the response, the store after the request, whether the
\* request passed checkRateLimit and whether anthropic.messages.create was
\* called
handleChat(req, upstream, store, now) ==
  IF req.method # "POST"
  THEN [status |-> 405, error |-> "Method not allowed", called |-> FALSE,
        store |-> store, passed |-> FALSE]
  ELSE handlePost(req, upstream, store, now)

(***************************************************************************)
(* State.                                                                  *)
(***************************************************************************)
VARIABLES
  \* Step 4 of the pipeline, one row of the data frame
  pc,              \* "idle", "step4", "done" (the Step 4 loop has run),
                   \* "raised", and the later steps of the pipeline
  region,          \* df['country'] of the row
  year,            \* df['year'] of the row
  ENERGY_SOURCES,  \* the list the loop runs over
  idx,             \* position of the loop in ENERGY_SOURCES
  primary,         \* source -> the row's primary quantity of the source
  efficiency,      \* source -> efficiency resolved by the loop so far
  useful,          \* source -> primary * efficiency (millionths of a unit)
  \* displacement
  timeseries,      \* the records (fossil, clean, total) of consecutive years
  metrics,         \* result of calculate_displacement_metrics, or NotRun
  periodData,      \* result of calculateDisplacement, or NotRun
  \* Steps 5 to 7 and validate_data, the same row
  rebound_config,     \* config_rebound_effect.json as loaded
  sector_allocation,  \* source_sector_allocation.json as loaded
  useful_net,         \* source -> the {source}_useful_net_ej column
  services,           \* source -> the {source}_services_ej column
  aggregate,          \* the columns Step 7 adds to the row, or NotRun
  reconciliation,     \* global_ej and regional_pj of Check 4, or NotRun
  validation,         \* outcome of validate_data, or NotRun
  \* the web application
  csvData,            \* rows of DisplacementTracker.downloadCSV, or NotRun
  regionalData,       \* region -> series of DisplacementByRegion, or None
  selectedRegions,    \* the selection of DisplacementByRegion
  FEEDBACK_FILE,      \* the records of feedback-submissions.json, as texts
  clock,              \* Date.now(), in milliseconds
  requests,           \* request -> method, chunks to come, body, response
  endEvents,          \* the POST requests in the order of their 'end' events
  fileAccess,         \* reads and writes of the file made so far
  feedback,           \* the text of the modal's textarea
  isSubmitted,        \* the modal shows the confirmation
  isSubmitting,       \* a submission is under way
  pending,            \* the text captured by the handleSubmit that awaits
                      \* fetch, or None
  response,           \* how the last fetch settled, or NotRun
  localStorage,       \* the value of 'feedbackSubmissions', or None (null)
  storageFull,        \* the storage of the origin has no room left
  fetchCount,         \* requests sent to /api/feedback
  rateLimitStore,     \* identifier -> timestamps of its admitted requests
  dateNow,            \* Date.now() of the chat server, in milliseconds
  admitted,           \* identifier -> timestamps of every request that
                      \* passed checkRateLimit
  chat                \* the last request, its response and the store
                      \* before it, or NotRun

effVars == <<pc, region, year, ENERGY_SOURCES, idx, primary, efficiency, useful>>
dispVars == <<timeseries, metrics, periodData>>
tierVars == <<rebound_config, sector_allocation, useful_net, services,
              aggregate, reconciliation, validation>>
seriesVars == <<csvData, regionalData, selectedRegions>>
feedbackVars == <<FEEDBACK_FILE, clock, requests, endEvents, fileAccess>>
modalVars == <<feedback, isSubmitted, isSubmitting, pending, response,
               localStorage, storageFull, fetchCount>>
chatVars == <<rateLimitStore, dateNow, admitted, chat>>
webVars == <<seriesVars, feedbackVars, modalVars, chatVars>>
vars == <<effVars, dispVars, tierVars, webVars>>

NotRun == [run |-> FALSE]

\* the other part of the model is at rest
EffIdle ==
  /\ pc = "idle"
  /\ region = "World"
  /\ year = BaseYear
  /\ ENERGY_SOURCES = <<>>
  /\ idx = 1
  /\ primary = EmptyMap
  /\ efficiency = EmptyMap
  /\ useful = EmptyMap

DispIdle ==
  /\ timeseries = <<>>
  /\ metrics = NotRun
  /\ periodData = NotRun

\* nothing of Steps 5 to 7 has run
TierNotRun ==
  /\ useful_net = EmptyMap
  /\ services = EmptyMap
  /\ aggregate = NotRun
  /\ reconciliation = NotRun
  /\ validation = NotRun

\* Step 4 alone: the documented configuration is loaded and not used
TierIdle ==
  /\ rebound_config = CONFIG_REBOUND_EFFECT
  /\ sector_allocation = SOURCE_SECTOR_ALLOCATION
  /\ TierNotRun

\* no table has been exported and no regional data is loaded
SeriesIdle ==
  /\ csvData = NotRun
  /\ regionalData = None
  /\ selectedRegions = DEFAULT_REGIONS

\* the feedback server has started and no request has arrived
FeedbackIdle ==
  /\ FEEDBACK_FILE = <<>>
  /\ clock = 0
  /\ requests = <<>>
  /\ endEvents = <<>>
  /\ fileAccess = [reads |-> 0, writes |-> 0]

\* the modal has not been opened
ModalIdle ==
  /\ feedback = <<>>
  /\ isSubmitted = FALSE
  /\ isSubmitting = FALSE
  /\ pending = None
  /\ response = NotRun
  /\ localStorage = None
  /\ storageFull = FALSE
  /\ fetchCount = 0

\* the chat server has started and no request has arrived
ChatIdle ==
  /\ rateLimitStore = EmptyMap
  /\ dateNow = 0
  /\ admitted = EmptyMap
  /\ chat = NotRun

\* the web application is at rest
WebIdle ==
  /\ SeriesIdle
  /\ FeedbackIdle
  /\ ModalIdle
  /\ ChatIdle

(***************************************************************************)
(* Step 4: apply efficiency factors (Tier 1 -> Tier 2).                    *)
(***************************************************************************)
Quantities == {0, MaxPrimary}

\* the names of a source list
Names(sources) == {sources[i] : i \in 1 .. Len(sources)}

InitEff ==
  /\ pc = "step4"
  /\ region \in Regions
  /\ year \in Years
  /\ ENERGY_SOURCES \in {TABLE_SOURCES, OWID_COLUMN_MAPPING}
  /\ idx = 1
  /\ \E q \in Quantities : primary = [s \in Names(ENERGY_SOURCES) |-> q]
  /\ efficiency = EmptyMap
  /\ useful = EmptyMap
  /\ DispIdle
  /\ TierIdle
  /\ WebIdle

\* one iteration of `for source in ENERGY_SOURCES` whose lookup succeeds
Step4 ==
  /\ pc = "step4"
  /\ idx <= Len(ENERGY_SOURCES)
  /\ LET source == ENERGY_SOURCES[idx]
     IN  \E r \in {get_efficiency_factor(source, year, region)} :
           /\ ~Raised(r)
           /\ efficiency' = (source :> r.value) @@ efficiency
           /\ useful' = (source :> primary[source] * r.value) @@ useful
  /\ idx' = idx + 1
  /\ UNCHANGED <<pc, region, year, ENERGY_SOURCES, primary>>
  /\ UNCHANGED <<dispVars, tierVars, webVars>>

\* the iteration whose lookup raises: the exception leaves the loop and,
\* uncaught, ends the script
Step4Raise ==
  /\ pc = "step4"
  /\ idx <= Len(ENERGY_SOURCES)
  /\ Raised(get_efficiency_factor(ENERGY_SOURCES[idx], year, region))
  /\ pc' = "raised"
  /\ UNCHANGED <<region, year, ENERGY_SOURCES, idx, primary, efficiency, useful>>
  /\ UNCHANGED <<dispVars, tierVars, webVars>>

\* the loop has run over every source
Step4Done ==
  /\ pc = "step4"
  /\ idx > Len(ENERGY_SOURCES)
  /\ pc' = "done"
  /\ UNCHANGED <<region, year, ENERGY_SOURCES, idx, primary, efficiency, useful>>
  /\ UNCHANGED <<dispVars, tierVars, webVars>>

NextEff == Step4 \/ Step4Raise \/ Step4Done

SpecEff == InitEff /\ [][NextEff]_vars

(***************************************************************************)
(* Displacement: two consecutive years of aggregated records.              *)
(***************************************************************************)
\* the previous years of the documented test cases
BaseRecords ==
  {[year |-> 2009, fossil |-> 180, clean |-> 35, total |-> 215],
   [year |-> 2019, fossil |-> 195, clean |-> 42, total |-> 237],
   [year |-> 2029, fossil |-> 180, clean |-> 80, total |-> 260]}

Deltas == (-MaxDelta) .. MaxDelta
Skews == (-MaxSkew) .. MaxSkew

\* the record of the following year: the sub-totals moved by df and dc, the
\* total off by k from their sum
FollowingRecord(prev, df, dc, k) ==
  [year |-> prev.year + 1,
   fossil |-> prev.fossil + df,
   clean |-> prev.clean + dc,
   total |-> prev.fossil + df + prev.clean + dc + k]

InitDisp ==
  /\ \E prev \in BaseRecords, df \in Deltas, dc \in Deltas, k \in Skews :
       timeseries = <<prev, FollowingRecord(prev, df, dc, k)>>
  /\ metrics = NotRun
  /\ periodData = NotRun
  /\ EffIdle
  /\ TierIdle
  /\ WebIdle

\* the pipeline computes the metrics of the last year of the series
CalculateDisplacementMetrics ==
  /\ Len(timeseries) >= 2
  /\ metrics = NotRun
  /\ metrics' = calculate_displacement_metrics(timeseries[Len(timeseries)],
                                               timeseries[Len(timeseries) - 1])
  /\ UNCHANGED <<timeseries, periodData>>
  /\ UNCHANGED <<effVars, tierVars, webVars>>

\* the DisplacementTracker component has loaded the series
\* (it returns at once when the series has fewer than 2 records)
CalculateDisplacement ==
  /\ Len(timeseries) >= 2
  /\ periodData = NotRun
  /\ periodData' = calculateDisplacement(timeseries)
  /\ UNCHANGED <<timeseries, metrics>>
  /\ UNCHANGED <<effVars, tierVars, webVars>>

NextDisp == CalculateDisplacementMetrics \/ CalculateDisplacement

SpecDisp == InitDisp /\ [][NextDisp]_vars

(***************************************************************************)
(* Steps 5 to 7 and validate_data, after Step 4, on one row.               *)
(***************************************************************************)
\* the World, a region of a developed and a region of a developing economy
TierRegions == {"World", "UnitedStates", "India"}

\* the base year of the temporal table and a year after the table
TierYears == {BaseYear, LastTemporalYear + YearsBeyond}

TierQuantities == {0, MaxQuantity}

InitTier ==
  /\ pc = "step4"
  /\ region \in TierRegions
  /\ year \in TierYears
  /\ ENERGY_SOURCES \in {TABLE_SOURCES, OWID_COLUMN_MAPPING}
  /\ idx = 1
  /\ \E fossil \in TierQuantities, clean \in TierQuantities :
       primary = [s \in Names(ENERGY_SOURCES) |->
                    IF s \in Names(FOSSIL_SOURCES) THEN fossil ELSE clean]
  /\ efficiency = EmptyMap
  /\ useful = EmptyMap
  /\ rebound_config \in {CONFIG_REBOUND_EFFECT,
                         CONFIG_REBOUND_EFFECT_GLOBAL_ONLY}
  /\ sector_allocation \in {SOURCE_SECTOR_ALLOCATION,
                            SOURCE_SECTOR_ALLOCATION_MISENTERED}
  /\ TierNotRun
  /\ DispIdle
  /\ WebIdle

\* the coal column read for every source once it is there
useful_ej_coal_column(source) ==
  IF "coal" \in DOMAIN useful THEN Frac(useful["coal"], Scale)
  ELSE Frac(useful[source], Scale)

\* the {source}_useful_ej column as a fraction
useful_ej(source) == Frac(useful[source], Scale)

\* Step 5: the rebound effect, on every source
Step5 ==
  /\ pc = "done"
  /\ LET rebound_rate == rebound_config["global_rebound_rate"]
     IN  useful_net' = [source \in Names(ENERGY_SOURCES) |->
                          useful_net_ej(useful_ej(source), rebound_rate)]
  /\ pc' = "step6"
  /\ UNCHANGED <<region, year, ENERGY_SOURCES, idx, primary, efficiency, useful>>
  /\ UNCHANGED <<rebound_config, sector_allocation, services, aggregate,
                 reconciliation, validation>>
  /\ UNCHANGED <<dispVars, webVars>>

\* Step 6: the exergy quality factors, on every source
Step6 ==
  /\ pc = "step6"
  /\ services' =
       [source \in Names(ENERGY_SOURCES) |->
          LET allocation == sector_allocation[source]
              weighted == weighted_exergy(allocation, EXERGY_QUALITY_FACTORS)
          IN  services_ej([useful_ej |-> useful_ej(source),
                           useful_net_ej |-> useful_net[source]], weighted)]
  /\ pc' = "step7"
  /\ UNCHANGED <<region, year, ENERGY_SOURCES, idx, primary, efficiency, useful>>
  /\ UNCHANGED <<rebound_config, sector_allocation, useful_net, aggregate,
                 reconciliation, validation>>
  /\ UNCHANGED <<dispVars, webVars>>

\* Step 7: totals, sub-totals, shares and leverage
Step7 ==
  /\ pc = "step7"
  /\ aggregate' = AggregateAndCalculate(ENERGY_SOURCES, useful_net, services)
  /\ pc' = "validate"
  /\ UNCHANGED <<region, year, ENERGY_SOURCES, idx, primary, efficiency, useful>>
  /\ UNCHANGED <<rebound_config, sector_allocation, useful_net, services,
                 reconciliation, validation>>
  /\ UNCHANGED <<dispVars, webVars>>

\* what the regional totals add up to, in per cent of the global total: the
\* same, a little less or more, and twice as much where every country is
\* also counted in a grouping
RegionalPercents == {95, 96, 100, 105, 106, 200}

\* total_useful_ej of the World row: the row itself, or another row of the
\* data frame
GlobalTotals ==
  IF region = "World" THEN {aggregate.total_useful_ej}
  ELSE {Frac(MaxQuantity, 1)}

\* sum_regional_totals(df), in PJ
RegionalTotals(global_ej) ==
  {FracMul(FracMul(global_ej, Frac(PJ_PER_EJ, 1)), Frac(k, 100)) :
     k \in RegionalPercents}

\* validate_data(df); a failed assert ends the script
ValidateData ==
  /\ pc = "validate"
  /\ \E global_ej \in GlobalTotals :
       \E regional_pj \in RegionalTotals(global_ej) :
         \E outcome \in {validate_data(aggregate, global_ej, regional_pj)} :
           /\ reconciliation' = [global_ej |-> global_ej,
                                 regional_pj |-> regional_pj]
           /\ validation' = outcome
           /\ pc' = IF Raised(outcome) THEN "failed" ELSE "validated"
  /\ UNCHANGED <<region, year, ENERGY_SOURCES, idx, primary, efficiency, useful>>
  /\ UNCHANGED <<rebound_config, sector_allocation, useful_net, services,
                 aggregate>>
  /\ UNCHANGED <<dispVars, webVars>>

NextTier ==
  \/ Step4 \/ Step4Raise \/ Step4Done
  \/ Step5 \/ Step6 \/ Step7 \/ ValidateData

SpecTier == InitTier /\ [][NextTier]_vars

(***************************************************************************)
(* The tier computations of a row in any order: the iterations of Step 4   *)
(* and of Steps 5 and 6 are taken source by source, each as soon as what   *)
(* it reads is there, and Step 7 reduces the row when all are done.        *)
(***************************************************************************)
\* a region without and a region with overrides
ParRegions == {"World", "India"}

InitPar ==
  /\ pc = "par"
  /\ region \in ParRegions
  /\ year = BaseYear
  /\ ENERGY_SOURCES \in {TABLE_SOURCES, OWID_COLUMN_MAPPING}
  /\ idx = 1
  /\ primary = [s \in Names(ENERGY_SOURCES) |->
                  IF s \in Names(FOSSIL_SOURCES) THEN MaxQuantity
                  ELSE MaxQuantity - 1]
  /\ efficiency = EmptyMap
  /\ useful = EmptyMap
  /\ TierIdle
  /\ DispIdle
  /\ WebIdle

\* the Step 4 iteration of one source
ParStep4 ==
  /\ pc = "par"
  /\ \E source \in Names(ENERGY_SOURCES) \ DOMAIN useful :
       \E r \in {get_efficiency_factor(source, year, region)} :
         /\ ~Raised(r)
         /\ efficiency' = (source :> r.value) @@ efficiency
         /\ useful' = (source :> primary[source] * r.value) @@ useful
  /\ UNCHANGED <<pc, region, year, ENERGY_SOURCES, idx, primary>>
  /\ UNCHANGED <<dispVars, tierVars, webVars>>

\* the Step 4 iteration of a source without coefficients
ParStep4Raise ==
  /\ pc = "par"
  /\ \E source \in Names(ENERGY_SOURCES) \ DOMAIN useful :
       Raised(get_efficiency_factor(source, year, region))
  /\ pc' = "raised"
  /\ UNCHANGED <<region, year, ENERGY_SOURCES, idx, primary, efficiency, useful>>
  /\ UNCHANGED <<dispVars, tierVars, webVars>>

\* the Step 5 and Step 6 iterations of one source
ParStep56 ==
  /\ pc = "par"
  /\ \E source \in DOMAIN useful \ DOMAIN services :
       LET rebound_rate == rebound_config["global_rebound_rate"]
           net == useful_net_ej(useful_ej(source), rebound_rate)
           allocation == sector_allocation[source]
           weighted == weighted_exergy(allocation, EXERGY_QUALITY_FACTORS)
       IN  /\ useful_net' = (source :> net) @@ useful_net
           /\ services' =
                (source :> services_ej([useful_ej |-> useful_ej(source),
                                        useful_net_ej |-> net], weighted))
                  @@ services
  /\ UNCHANGED effVars
  /\ UNCHANGED <<rebound_config, sector_allocation, aggregate,
                 reconciliation, validation>>
  /\ UNCHANGED <<dispVars, webVars>>

\* Step 7, once every source has its columns
ParStep7 ==
  /\ pc = "par"
  /\ DOMAIN services = Names(ENERGY_SOURCES)
  /\ aggregate' = AggregateAndCalculate(ENERGY_SOURCES, useful_net, services)
  /\ pc' = "reduced"
  /\ UNCHANGED <<region, year, ENERGY_SOURCES, idx, primary, efficiency, useful>>
  /\ UNCHANGED <<rebound_config, sector_allocation, useful_net, services,
                 reconciliation, validation>>
  /\ UNCHANGED <<dispVars, webVars>>

NextPar == ParStep4 \/ ParStep4Raise \/ ParStep56 \/ ParStep7

SpecPar == InitPar /\ [][NextPar]_vars

(***************************************************************************)
(* The year-over-year table of the DisplacementTracker: a series whose     *)
(* years need not be consecutive.                                          *)
(***************************************************************************)
\* the last year of the series
LastSeriesYear == 2024

SeriesYears == (LastSeriesYear - SeriesSpan) .. LastSeriesYear

\* the sub-totals of the documented test cases
SeriesLevels ==
  {[fossil |-> 180, clean |-> 35],
   [fossil |-> 185, clean |-> 37],
   [fossil |-> 195, clean |-> 42]}

\* the years of a set, ascending
RECURSIVE SortedYears(_)
SortedYears(Y) ==
  IF Y = {} THEN <<>>
  ELSE LET first == CHOOSE y \in Y : \A z \in Y : y <= z
       IN  <<first>> \o SortedYears(Y \ {first})

\* the series of the years Y, ascending, with the sub-totals level[y]
SeriesOf(Y, level) ==
  [i \in 1 .. Cardinality(Y) |->
     LET y == SortedYears(Y)[i]
     IN  [year |-> y,
          fossil |-> level[y].fossil,
          clean |-> level[y].clean,
          total |-> level[y].fossil + level[y].clean]]

InitCsv ==
  /\ \E Y \in SUBSET SeriesYears, level \in [SeriesYears -> SeriesLevels] :
       timeseries = SeriesOf(Y, level)
  /\ metrics = NotRun
  /\ periodData = NotRun
  /\ csvData = NotRun
  /\ regionalData = None
  /\ selectedRegions = DEFAULT_REGIONS
  /\ FeedbackIdle
  /\ ModalIdle
  /\ ChatIdle
  /\ EffIdle
  /\ TierIdle

\* the user exports the table
DownloadCSV ==
  /\ csvData = NotRun
  /\ csvData' = [run |-> TRUE, rows |-> downloadCSV(timeseries)]
  /\ UNCHANGED <<regionalData, selectedRegions>>
  /\ UNCHANGED <<timeseries, metrics, periodData>>
  /\ UNCHANGED <<effVars, tierVars, feedbackVars, modalVars, chatVars>>

\* the pipeline computes the metrics of one year of the series, from the
\* year's record and the record of the year before, if any
MissingDataHandling ==
  /\ metrics = NotRun
  /\ \E i \in 1 .. Len(timeseries) :
       metrics' =
         [year |-> timeseries[i].year]
           @@ metrics_or_nan(timeseries[i],
                             FindYear(timeseries, timeseries[i].year - 1))
  /\ UNCHANGED <<timeseries, periodData>>
  /\ UNCHANGED <<effVars, tierVars, webVars>>

NextCsv == DownloadCSV \/ MissingDataHandling

SpecCsv == InitCsv /\ [][NextCsv]_vars

(***************************************************************************)
(* DisplacementByRegion: the regional series are fetched, then the user    *)
(* toggles regions and selects categories.                                 *)
(***************************************************************************)
\* the regions of the fetched file
DataRegions == {"China", "Europe", "OECD"}

\* the fossil useful energy of a region's first record
RegionLevel(r) ==
  CASE r = "China" -> 100
    [] r = "Europe" -> 50
    [] r = "OECD" -> 200

\* the series a region may have: the years from 1999 on, a series without
\* the year 2001, and a series with a null quantity
RegionSeries(r) ==
  {<<[year |-> 1999, fossil_useful_ej |-> Frac(RegionLevel(r), 1)],
     [year |-> 2000, fossil_useful_ej |-> Frac(RegionLevel(r) + 3, 1)],
     [year |-> 2001, fossil_useful_ej |-> Frac(RegionLevel(r) + 4, 1)],
     [year |-> 2002, fossil_useful_ej |-> Frac(RegionLevel(r) + 9, 1)]>>,
   <<[year |-> 2000, fossil_useful_ej |-> Frac(RegionLevel(r) + 3, 1)],
     [year |-> 2002, fossil_useful_ej |-> Frac(RegionLevel(r) + 9, 1)],
     [year |-> 2003, fossil_useful_ej |-> None]>>}

RegionalDatasets ==
  {data \in [DataRegions -> UNION {RegionSeries(r) : r \in DataRegions}] :
     \A r \in DataRegions : data[r] \in RegionSeries(r)}

\* the region buttons the user clicks
ToggleRegions == {"China", "Europe", "OECD", "European Union", "Non-OECD"}

InitRegion ==
  /\ regionalData = None
  /\ selectedRegions = DEFAULT_REGIONS
  /\ csvData = NotRun
  /\ FeedbackIdle
  /\ ModalIdle
  /\ ChatIdle
  /\ EffIdle
  /\ DispIdle
  /\ TierIdle

\* the fetch of regional_energy_timeseries.json resolves
LoadRegionalData ==
  /\ regionalData = None
  /\ regionalData' \in RegionalDatasets
  /\ UNCHANGED <<csvData, selectedRegions>>
  /\ UNCHANGED <<effVars, dispVars, tierVars, feedbackVars, modalVars,
                 chatVars>>

\* a click on a region button (rendered once the data is loaded)
ToggleRegion ==
  /\ regionalData # None
  /\ \E r \in ToggleRegions :
       selectedRegions' = toggleRegion(selectedRegions, r)
  /\ UNCHANGED <<csvData, regionalData>>
  /\ UNCHANGED <<effVars, dispVars, tierVars, feedbackVars, modalVars,
                 chatVars>>

\* a click on a category button
SelectCategory ==
  /\ regionalData # None
  /\ \E category \in DOMAIN REGION_CATEGORIES :
       selectedRegions' = selectCategory(category)
  /\ UNCHANGED <<csvData, regionalData>>
  /\ UNCHANGED <<effVars, dispVars, tierVars, feedbackVars, modalVars,
                 chatVars>>

NextRegion == LoadRegionalData \/ ToggleRegion \/ SelectCategory

SpecRegion == InitRegion /\ [][NextRegion]_vars

(***************************************************************************)
(* The feedback server: requests arrive, their bodies arrive in chunks,    *)
(* and the listeners of one Node process run one at a time.                *)
(***************************************************************************)
Requests == 1 .. MaxRequests

\* the bodies clients post: a submission, a submission with an id member,
\* and a text cut short
Bodies ==
  {<<LBrace, Member("feedback", <<"o", "k">>), RBrace>>,
   <<LBrace, Member("id", <<"1">>), Member("feedback", <<"h", "i">>), RBrace>>,
   <<LBrace, Member("feedback", <<"o", "k">>)>>}

\* the ways a body is cut into the chunks of the 'data' events
Chunkings(text) ==
  {<<text>>, <<SubSeq(text, 1, 1), SubSeq(text, 2, Len(text))>>}

\* the methods of the requests that are not POST or GET
OtherMethods == {"PUT", "DELETE"}

\* a file written by earlier runs of the server
EarlierFiles ==
  {<<>>, <<JSONstringify([id |-> <<"0">>, feedback |-> <<"o", "l", "d">>])>>}

InitFeedback ==
  /\ FEEDBACK_FILE \in EarlierFiles
  /\ clock = 1
  /\ requests = <<>>
  /\ endEvents = <<>>
  /\ fileAccess = [reads |-> 0, writes |-> 0]
  /\ SeriesIdle
  /\ ModalIdle
  /\ ChatIdle
  /\ EffIdle
  /\ DispIdle
  /\ TierIdle

\* a millisecond passes
Tick ==
  /\ clock < MaxClock
  /\ clock' = clock + 1
  /\ UNCHANGED <<FEEDBACK_FILE, requests, endEvents, fileAccess>>
  /\ UNCHANGED <<effVars, dispVars, tierVars, seriesVars, modalVars,
                 chatVars>>

\* handleFeedback is called with a POST: it registers the listeners
PostArrives ==
  /\ Len(requests) < MaxRequests
  /\ \E text \in Bodies : \E chunks \in Chunkings(text) :
       requests' = Append(requests,
                          [method |-> "POST", state |-> "receiving",
                           chunks |-> chunks, body |-> <<>>,
                           status |-> 0, json |-> [none |-> TRUE]])
  /\ UNCHANGED <<FEEDBACK_FILE, clock, endEvents, fileAccess>>
  /\ UNCHANGED <<effVars, dispVars, tierVars, seriesVars, modalVars,
                 chatVars>>

\* req.on('data', chunk => { body += chunk.toString(); })
OnData ==
  /\ \E r \in 1 .. Len(requests) :
       /\ requests[r].state = "receiving"
       /\ requests[r].chunks # <<>>
       /\ requests' =
            [requests EXCEPT ![r].body = @ \o Head(requests[r].chunks),
                             ![r].chunks = Tail(@)]
  /\ UNCHANGED <<FEEDBACK_FILE, clock, endEvents, fileAccess>>
  /\ UNCHANGED <<effVars, dispVars, tierVars, seriesVars, modalVars,
                 chatVars>>

\* the outcome of a listener applied to the state
Applied(r, outcome) ==
  /\ FEEDBACK_FILE' = outcome.file
  /\ fileAccess' = [reads |-> fileAccess.reads + outcome.reads,
                    writes |-> fileAccess.writes + outcome.writes]
  /\ requests' = [requests EXCEPT ![r].state = "done",
                                  ![r].status = outcome.status,
                                  ![r].json = outcome.json]

\* req.on('end', ...) of a POST whose chunks have all arrived
OnEnd ==
  /\ \E r \in 1 .. Len(requests) :
       /\ requests[r].state = "receiving"
       /\ requests[r].chunks = <<>>
       /\ Applied(r, onEnd(requests[r].body, FEEDBACK_FILE, clock))
       /\ endEvents' = Append(endEvents, r)
  /\ UNCHANGED clock
  /\ UNCHANGED <<effVars, dispVars, tierVars, seriesVars, modalVars,
                 chatVars>>

\* handleFeedback is called with a GET
GetFeedback ==
  /\ Len(requests) < MaxRequests
  /\ \E outcome \in {onGet(FEEDBACK_FILE)} :
       /\ requests' = Append(requests,
                             [method |-> "GET", state |-> "done",
                              chunks |-> <<>>, body |-> <<>>,
                              status |-> outcome.status,
                              json |-> outcome.json])
       /\ FEEDBACK_FILE' = outcome.file
       /\ fileAccess' = [reads |-> fileAccess.reads + outcome.reads,
                         writes |-> fileAccess.writes + outcome.writes]
  /\ UNCHANGED <<clock, endEvents>>
  /\ UNCHANGED <<effVars, dispVars, tierVars, seriesVars, modalVars,
                 chatVars>>

\* handleFeedback is called with another method
MethodNotAllowed ==
  /\ Len(requests) < MaxRequests
  /\ \E method \in OtherMethods : \E outcome \in {onOtherMethod(FEEDBACK_FILE)} :
       /\ requests' = Append(requests,
                             [method |-> method, state |-> "done",
                              chunks |-> <<>>, body |-> <<>>,
                              status |-> outcome.status,
                              json |-> outcome.json])
       /\ FEEDBACK_FILE' = outcome.file
       /\ fileAccess' = [reads |-> fileAccess.reads + outcome.reads,
                         writes |-> fileAccess.writes + outcome.writes]
  /\ UNCHANGED <<clock, endEvents>>
  /\ UNCHANGED <<effVars, dispVars, tierVars, seriesVars, modalVars,
                 chatVars>>

NextFeedback ==
  Tick \/ PostArrives \/ OnData \/ OnEnd \/ GetFeedback \/ MethodNotAllowed

SpecFeedback == InitFeedback /\ [][NextFeedback]_vars

(***************************************************************************)
(* The feedback modal: the user types, submits and closes; fetch settles   *)
(* later.  The server behind /api/feedback is handleFeedback.              *)
(***************************************************************************)
\* the texts the user types
Texts == {<<>>, <<" ">>, <<" ", "o", "k", " ">>, <<"h", "i">>}

InitModal ==
  /\ feedback = <<>>
  /\ isSubmitted = FALSE
  /\ isSubmitting = FALSE
  /\ pending = None
  /\ response = NotRun
  /\ localStorage = None
  /\ storageFull \in BOOLEAN
  /\ fetchCount = 0
  /\ FeedbackIdle
  /\ SeriesIdle
  /\ ChatIdle
  /\ EffIdle
  /\ DispIdle
  /\ TierIdle

\* onChange of the textarea (rendered while the form is shown, disabled
\* during a submission)
SetFeedback ==
  /\ ~isSubmitted
  /\ ~isSubmitting
  /\ feedback' \in Texts
  /\ UNCHANGED <<isSubmitted, isSubmitting, pending, response, localStorage,
                 storageFull, fetchCount>>
  /\ UNCHANGED <<effVars, dispVars, tierVars, seriesVars, feedbackVars,
                 chatVars>>

\* handleSubmit up to `await fetch`: nothing happens for a blank text
HandleSubmit ==
  /\ ~isSubmitted
  /\ ~isSubmitting
  /\ fetchCount < MaxSubmissions
  /\ IF trim(feedback) = <<>>
     THEN UNCHANGED <<isSubmitting, pending, fetchCount>>
     ELSE /\ isSubmitting' = TRUE
          /\ pending' = [kind |-> "text", text |-> feedback]
          /\ fetchCount' = fetchCount + 1
  /\ UNCHANGED <<feedback, isSubmitted, response, localStorage, storageFull>>
  /\ UNCHANGED <<effVars, dispVars, tierVars, seriesVars, feedbackVars,
                 chatVars>>

\* the state the continuation of handleSubmit works on: the text it
\* captured, the text shown, the confirmation flag and the storage
Continuation ==
  [feedback |-> pending.text, shown |-> feedback, isSubmitted |-> isSubmitted,
   localStorage |-> localStorage, full |-> storageFull]

\* the continuation has run to the end of the finally block
Settled(kind, after) ==
  /\ response' = [run |-> TRUE, kind |-> kind]
  /\ localStorage' = after.localStorage
  /\ isSubmitted' = after.isSubmitted
  /\ feedback' = after.feedback
  /\ isSubmitting' = after.isSubmitting
  /\ pending' = None
  /\ UNCHANGED <<storageFull, fetchCount>>
  /\ UNCHANGED <<effVars, dispVars, tierVars, seriesVars, chatVars>>

\* the server has stored the submission and answered 200
ResponseOk ==
  /\ pending # None
  /\ \E outcome \in {onEnd(JSONstringify(submission(pending.text)),
                           FEEDBACK_FILE, clock)} :
       /\ outcome.status = 200
       /\ FEEDBACK_FILE' = outcome.file
       /\ fileAccess' = [reads |-> fileAccess.reads + outcome.reads,
                         writes |-> fileAccess.writes + outcome.writes]
  /\ Settled("ok", afterFetch(TRUE, FALSE, Continuation))
  /\ UNCHANGED <<clock, requests, endEvents>>

\* the answer is not a 2xx (the server failed, or no server handles the
\* path)
ResponseNotOk ==
  /\ pending # None
  /\ Settled("not ok", afterFetch(FALSE, FALSE, Continuation))
  /\ UNCHANGED feedbackVars

\* fetch rejects (the network is down)
FetchThrows ==
  /\ pending # None
  /\ Settled("threw", afterFetch(FALSE, TRUE, Continuation))
  /\ UNCHANGED feedbackVars

\* handleClose
HandleClose ==
  /\ isSubmitted' = FALSE
  /\ feedback' = <<>>
  /\ UNCHANGED <<isSubmitting, pending, response, localStorage, storageFull,
                 fetchCount>>
  /\ UNCHANGED <<effVars, dispVars, tierVars, seriesVars, feedbackVars,
                 chatVars>>

NextModal ==
  \/ SetFeedback \/ HandleSubmit \/ ResponseOk \/ ResponseNotOk
  \/ FetchThrows \/ HandleClose

SpecModal == InitModal /\ [][NextModal]_vars

(***************************************************************************)
(* The chat server: requests arrive, time passes.                          *)
(***************************************************************************)
\* the time that passes between two arrivals, when any does
TimeStep == RATE_LIMIT_WINDOW \div StepsPerWindow

\* the clients: one behind a proxy, one without any address
ProxiedClient == [forwardedFor |-> "203.0.113.7", remoteAddress |-> "10.0.0.1"]
UnknownClient == [forwardedFor |-> "", remoteAddress |-> ""]

\* the bodies of the requests: a complete one, bodies without a messages
\* array or a system prompt, and a text that is not JSON
CompleteBody == [json |-> TRUE, messages |-> "array", systemPrompt |-> "text"]

ChatBodies ==
  {CompleteBody,
   [json |-> TRUE, messages |-> "undefined", systemPrompt |-> "text"],
   [json |-> TRUE, messages |-> "string", systemPrompt |-> "text"],
   [json |-> TRUE, messages |-> "array", systemPrompt |-> "undefined"],
   [json |-> FALSE, messages |-> "undefined", systemPrompt |-> "undefined"]}

\* the outcomes of the Anthropic call: the status of its answer
Upstreams == {200, 401, 429, 503}

\* the requests, each with the outcome its Anthropic call would have: a GET,
\* and POSTs of every body (the outcome matters for the complete body only)
ChatRequests ==
  {[method |-> m, forwardedFor |-> c.forwardedFor,
    remoteAddress |-> c.remoteAddress, body |-> b, upstream |-> u] :
     m \in {"POST", "GET"}, c \in {ProxiedClient, UnknownClient},
     b \in ChatBodies, u \in Upstreams}

\* the requests that arrive: the client without an address sends requests
\* until one of them has passed the rate limiter
Arrivals ==
  {req \in ChatRequests :
     /\ req.method = "GET" => req.body = CompleteBody
     /\ req.body # CompleteBody \/ req.method = "GET" => req.upstream = 200
     /\ identifierOf(req) = "unknown" =>
          userRequestsOf(admitted, "unknown") = <<>>}

InitChat ==
  /\ rateLimitStore = EmptyMap
  /\ dateNow = 0
  /\ admitted = EmptyMap
  /\ chat = NotRun
  /\ SeriesIdle
  /\ FeedbackIdle
  /\ ModalIdle
  /\ EffIdle
  /\ DispIdle
  /\ TierIdle

\* time passes
Wait ==
  /\ dateNow + TimeStep <= StepsPerWindow * TimeStep
  /\ dateNow' = dateNow + TimeStep
  /\ UNCHANGED <<rateLimitStore, admitted, chat>>
  /\ UNCHANGED <<effVars, dispVars, tierVars, seriesVars, feedbackVars,
                 modalVars>>

\* a request is handled by handleChat
HandleChat ==
  /\ \E req \in Arrivals :
       \E res \in {handleChat(req, req.upstream, rateLimitStore, dateNow)} :
         /\ rateLimitStore' = res.store
         /\ chat' = [run |-> TRUE, req |-> req,
                     identifier |-> identifierOf(req),
                     status |-> res.status, error |-> res.error,
                     called |-> res.called, before |-> rateLimitStore,
                     now |-> dateNow]
         /\ admitted' =
              IF res.passed
              THEN (identifierOf(req) :>
                      Append(userRequestsOf(admitted, identifierOf(req)),
                             dateNow)) @@ admitted
              ELSE admitted
  /\ UNCHANGED dateNow
  /\ UNCHANGED <<effVars, dispVars, tierVars, seriesVars, feedbackVars,
                 modalVars>>

NextChat == Wait \/ HandleChat

SpecChat == InitChat /\ [][NextChat]_vars

(***************************************************************************)
(* The whole model.                                                        *)
(***************************************************************************)
Init == InitEff \/ InitDisp \/ InitTier \/ InitPar \/ InitCsv \/ InitRegion
          \/ InitFeedback \/ InitModal \/ InitChat
Next == NextEff \/ NextDisp \/ NextTier \/ NextPar \/ NextCsv \/ NextRegion
          \/ NextFeedback \/ NextModal \/ NextChat
Spec == Init /\ [][Next]_vars

(***************************************************************************)
(* Properties of efficiency resolution (checked under SpecEff).            *)
(***************************************************************************)
HasOverride(r, s) ==
  /\ r \in DOMAIN REGIONAL_EFFICIENCY_ADJUSTMENTS
  /\ s \in DOMAIN REGIONAL_EFFICIENCY_ADJUSTMENTS[r]

\* the loop has resolved the factor of at least one source
Resolved == idx > 1 /\ Len(ENERGY_SOURCES) >= idx - 1
\* the source whose factor the loop resolved last
LastSource == ENERGY_SOURCES[idx - 1]

\* C1: efficiency resolution is a first-match-wins priority chain.  The
\* factor the Step 4 loop resolved for a source is the regional override
\* whenever the row's region has one for the source, in every year and also
\* when the temporal table has a value for that source and year; otherwise
\* it is the temporal value when the year has one; it is the global baseline
\* only when there is neither an override nor a temporal value.  The useful
\* energy of the source is the primary quantity times that factor.
C1_PriorityChain ==
  Resolved =>
    LET s == LastSource
    IN  /\ s \in DOMAIN efficiency
        /\ HasOverride(region, s) =>
             efficiency[s] = REGIONAL_EFFICIENCY_ADJUSTMENTS[region][s]
        /\ (~HasOverride(region, s) /\ year \in TemporalYears) =>
             efficiency[s] = EFFICIENCY_FACTORS_TEMPORAL[year][s]
        /\ (~HasOverride(region, s) /\ year \notin TemporalYears) =>
             efficiency[s] = EFFICIENCY_FACTORS[s]
        /\ useful[s] = primary[s] * efficiency[s]

\* C1 witness: China's coal override (0.40) was resolved for the year 2000,
\* for which the temporal table holds another value for coal.
C1_Witness ==
  /\ region = "China"
  /\ year = 2000
  /\ "coal" \in DOMAIN efficiency
  /\ efficiency["coal"] = 400000
  /\ EFFICIENCY_FACTORS_TEMPORAL[2000]["coal"] # 400000
  /\ primary["coal"] > 0
  /\ useful["coal"] = primary["coal"] * 400000

\* C8: for a source with a positive annual improvement rate and a region
\* without an override for it, the factor resolved for a year of the
\* temporal table is min(base * (1 + rate)^(year - base_year), max), it is
\* at most the factor resolved for a later year, and it never exceeds
\* max_efficiency(source).  Every year is compared with the year after it
\* (the comparisons chain over every pair y1 <= y2, each year being the
\* year of some row), with the last year of the temporal table and with the
\* last year modelled.
LaterYears(y) ==
  {y2 \in {y + 1, LastTemporalYear, LastTemporalYear + YearsBeyond} :
     y <= y2 /\ y2 \in Years}

C9_UnknownSourceState ==
  /\ \A s \in DOMAIN efficiency \cup DOMAIN useful : s \in Sources
  /\ pc = "done" =>
       \A i \in 1 .. Len(ENERGY_SOURCES) : ENERGY_SOURCES[i] \in Sources
  /\ (pc = "step4" /\ idx <= Len(ENERGY_SOURCES)
        /\ ENERGY_SOURCES[idx] \notin Sources) =>
       Raised(get_efficiency_factor(ENERGY_SOURCES[idx], year, region))
  /\ pc = "raised" =>
       /\ ENERGY_SOURCES[idx] \notin Sources
       /\ DOMAIN useful = {ENERGY_SOURCES[i] : i \in 1 .. (idx - 1)}

C10_EfficiencyInUnitInterval ==
  /\ Resolved =>
       /\ efficiency[LastSource] > 0
       /\ efficiency[LastSource] <= Scale
  /\ (pc = "step4" /\ idx <= Len(ENERGY_SOURCES)
        /\ ENERGY_SOURCES[idx] \in Sources) =>
       ~Raised(get_efficiency_factor(ENERGY_SOURCES[idx], year, region))
  /\ pc = "raised" => ENERGY_SOURCES[idx] \notin Sources

\* C10 witness: a row of a year after the temporal table, for a region
\* without overrides: all nine factors were resolved from the baseline.
C10_Witness ==
  /\ pc = "done"
  /\ region = "Japan"
  /\ year > LastTemporalYear
  /\ DOMAIN efficiency = Sources
  /\ efficiency["biofuels"] = 150000

(***************************************************************************)
(* Properties of the displacement metrics (checked under SpecDisp).        *)
(***************************************************************************)
PrevRecord == timeseries[Len(timeseries) - 1]
CurrRecord == timeseries[Len(timeseries)]
DeltaFossil == CurrRecord.fossil - PrevRecord.fossil
DeltaClean == CurrRecord.clean - PrevRecord.clean
DeltaTotal == CurrRecord.total - PrevRecord.total
MetricsReturned == metrics # NotRun
PeriodDataSet == periodData # NotRun

\* C2: net change is exactly the fossil delta, in the Python metrics and in
\* every period of the DisplacementTracker, whatever the clean delta is.
C2_NetChangeIsFossilDelta ==
  /\ MetricsReturned => metrics.net_change_fossil = DeltaFossil
  /\ PeriodDataSet =>
       \A p \in PeriodKeys : periodData[p].netChange = DeltaFossil

\* C3: FF_growth is None, and no number at all, whenever the total delta is
\* <= 0; displacement and net change are computed all the same; when the
\* total delta is > 0, FF_growth = (fossil delta / total delta) x 100.
C3_FFGrowthUndefinedOnContraction ==
  MetricsReturned =>
    /\ DeltaTotal <= 0 =>
         /\ metrics.ff_growth_percent = None
         /\ ~IsNumber(metrics.ff_growth_percent)
         /\ metrics.displacement = Max(0, DeltaClean)
         /\ metrics.net_change_fossil = DeltaFossil
    /\ DeltaTotal > 0 =>
         /\ IsNumber(metrics.ff_growth_percent)
         /\ metrics.ff_growth_percent.den > 0
         /\ metrics.ff_growth_percent.num * DeltaTotal =
              100 * DeltaFossil * metrics.ff_growth_percent.den

\* C3 witness: the recession year, 237 -> 230 with clean +1 and fossil -8.
C3_Witness ==
  /\ MetricsReturned
  /\ PrevRecord = [year |-> 2019, fossil |-> 195, clean |-> 42, total |-> 237]
  /\ CurrRecord = [year |-> 2020, fossil |-> 187, clean |-> 43, total |-> 230]
  /\ metrics.displacement = 1
  /\ metrics.net_change_fossil = -8
  /\ metrics.ff_growth_percent = None

C5_DisplacementFloor ==
  /\ MetricsReturned =>
       /\ metrics.displacement >= 0
       /\ DeltaClean <= 0 => metrics.displacement = 0
       /\ DeltaClean > 0 => metrics.displacement = DeltaClean
  /\ PeriodDataSet =>
       \A p \in PeriodKeys :
         /\ periodData[p].displacementRate >= 0
         /\ DeltaClean <= 0 => periodData[p].displacementRate = 0
         /\ DeltaClean > 0 => periodData[p].displacementRate = DeltaClean

\* C5 witness: clean and fossil both declined; the displacement is 0 in
\* both implementations.
C5_Witness ==
  /\ MetricsReturned
  /\ PeriodDataSet
  /\ DeltaClean < 0
  /\ DeltaFossil < 0
  /\ DeltaTotal < 0
  /\ metrics.displacement = 0
  /\ periodData["current"].displacementRate = 0

\* C6: metrics are returned only for deltas that satisfy the conservation
\* invariant, total delta = fossil delta + clean delta; otherwise the
\* computation raises and returns no metrics.
C6_ConservationEnforced ==
  MetricsReturned =>
    metrics.delta_total = metrics.delta_fossil + metrics.delta_clean

\* C7: FF_growth is not clamped: with total delta > 0 it is negative exactly
\* when the fossil delta is negative and greater than 100 exactly when the
\* clean delta is negative; 180/80/260 -> 175/90/265 gives displacement 10,
\* FF_growth -100, net change -5 and displacement rate 100.
C7_FFGrowthUnclamped ==
  MetricsReturned =>
    /\ DeltaTotal > 0 =>
         LET ff == metrics.ff_growth_percent
         IN  /\ IsNumber(ff)
             /\ (ff.num < 0) <=> (DeltaFossil < 0)
             /\ (ff.num > 100 * ff.den) <=> (DeltaClean < 0)
    /\ (/\ PrevRecord = [year |-> 2029, fossil |-> 180, clean |-> 80,
                         total |-> 260]
        /\ CurrRecord = [year |-> 2030, fossil |-> 175, clean |-> 90,
                         total |-> 265]) =>
         /\ metrics.displacement = 10
         /\ metrics.ff_growth_percent = Frac(-100, 1)
         /\ metrics.net_change_fossil = -5
         /\ metrics.displacement_rate_percent = Frac(100, 1)

(***************************************************************************)
(* Properties of the tiers (checked under SpecTier).                       *)
(***************************************************************************)
\* Step 5, Step 6, Step 7 have run on the row
Step5Ran == pc \in {"step6", "step7", "validate", "validated", "failed"}
Step6Ran == pc \in {"step7", "validate", "validated", "failed"}
Step7Ran == pc \in {"validate", "validated", "failed"}

\* the weighted factor Step 6 computes for a source
WeightedExergyOf(source) ==
  weighted_exergy(sector_allocation[source], EXERGY_QUALITY_FACTORS)

\* the fractions sum to 1.0 within 0.001
AllocationCloses(allocation) ==
  Abs(allocation_sum(allocation) * 10 - AllocationScale * 10) <= 1

\* C11: weighted_exergy(source) raises AllocationError if and only if the
\* fractions of the source sum outside [0.999, 1.001]: a weighted factor is
\* never returned, and no services value is ever computed, for a source whose
\* allocation fails the check, and the fractions are used as configured.
C11_AllocationErrorIffSumOff ==
  Step6Ran =>
    \A source \in DOMAIN services :
      /\ AllocationCloses(sector_allocation[source])
      /\ services[source] = FracMul(useful_net[source], WeightedExergyOf(source))

\* the weighted factors written next to the allocation table, in hundredths
DocumentedWeightedExergy ==
  [coal |-> 90, oil |-> 84, gas |-> 64, nuclear |-> 100, hydro |-> 100,
   wind |-> 100, solar |-> 100, biofuels |-> 46, geothermal |-> 76]

GrossUseful(source) ==
  FracMul(Frac(primary[source], 1), Frac(efficiency[source], Scale))

\* 1 - rebound_rate for the rate Step 5 loads
Retention ==
  Frac(ReboundScale - rebound_config["global_rebound_rate"], ReboundScale)

ValidConfiguration ==
  /\ FracLT(Zero, Retention)
  /\ FracLE(Retention, One)
  /\ \A source \in DOMAIN services :
       /\ 0 < efficiency[source]
       /\ efficiency[source] <= Scale
       /\ FracLT(Zero, WeightedExergyOf(source))
       /\ FracLE(WeightedExergyOf(source), One)

\* C14: under a valid configuration and for the non-negative primary
\* quantities of a row, every source's tiers satisfy
\* 0 <= services <= useful <= primary, useful being the value net of rebound.
C14_TierOrder ==
  (Step6Ran /\ ValidConfiguration) =>
    \A source \in DOMAIN services :
      /\ primary[source] >= 0
      /\ FracLE(Zero, services[source])
      /\ FracLE(services[source], useful_net[source])
      /\ FracLE(useful_net[source], Frac(primary[source], 1))

\* C14 witness: a row of India in 1965 under the documented tables, with
\* services < useful < primary for its coal.
C14_Witness ==
  /\ Step6Ran
  /\ ValidConfiguration
  /\ region = "India"
  /\ year = BaseYear
  /\ primary["coal"] > 0
  /\ FracLT(Zero, services["coal"])
  /\ FracLT(services["coal"], useful_net["coal"])
  /\ FracLT(useful_net["coal"], Frac(primary["coal"], 1))

\* the class of a region's economy
region_class(r) ==
  CASE r = "UnitedStates" -> "developed"
    [] r = "India" -> "developing"
    [] OTHER -> "unclassified"

\* the rate the claim selects: the rate of the region's class when the
\* configuration has one, the global rate otherwise
SelectedReboundRate ==
  IF region_class(region) \in DOMAIN rebound_config["regional_variations"]
  THEN rebound_config["regional_variations"][region_class(region)]
  ELSE rebound_config["global_rebound_rate"]

\* C15: the rebound step uses the rate of the region's class (developed or
\* developing) whenever the configuration has one and the global rate only
\* otherwise, and its result is useful_gross x (1 - rate) for that rate.
C15_RegionClassRate ==
  Step5Ran =>
    \A source \in DOMAIN useful_net :
      useful_net[source] =
        FracMul(GrossUseful(source),
                Frac(ReboundScale - SelectedReboundRate, ReboundScale))

(***************************************************************************)
(* Properties of the aggregate and its validation (checked under SpecTier).*)
(***************************************************************************)
\* |total - (fossil + clean)| <= 1% of the total
WithinOnePercent(total, fossil, clean) ==
  FracLE(FracAbs(FracSub(total, FracAdd(fossil, clean))),
         FracMul(Frac(1, 100), FracAbs(total)))

C17_LeverageNotApplicable ==
  Step7Ran =>
    /\ (IsNumber(aggregate.clean_share_useful)
          /\ aggregate.clean_share_useful.num > 0) =>
         aggregate.clean_leverage =
           FloatDiv(aggregate.clean_share_services,
                    aggregate.clean_share_useful)
    /\ aggregate.clean_share_useful = Zero =>
         aggregate.clean_leverage = None

\* Checks 1 to 3 have passed: the validation has ended without error or with
\* the error of the regional check
RegionalCheckReached ==
  \/ ~Raised(validation)
  \/ validation.raised = "Regional sum /= Global"

\* Check 2 or Check 4 does not hold of the validated aggregate
ConsistencyCheckFails ==
  \/ ~np_isclose(aggregate.total_useful_ej,
                 FracAdd(aggregate.fossil_useful_ej,
                         aggregate.clean_useful_ej),
                 Frac(1, 100), DefaultAtol)
  \/ ~regional_check(reconciliation.global_ej, reconciliation.regional_pj)

\* C18: a failed consistency check (total against fossil + clean, or the
\* regional sums against the global total) does not suppress the result:
\* validation returns, the run goes on with the aggregate, and what is
\* returned tells the failure.
C18_ConsistencyErrorsCollected ==
  (validation # NotRun /\ RegionalCheckReached /\ ConsistencyCheckFails) =>
    /\ ~Raised(validation)
    /\ pc = "validated"
    /\ validation.value # "All validation checks passed"

\* the global total in PJ and the regional sum differ by more than 5% of
\* the regional sum
RegionalDivergence ==
  LET global_pj == FracMul(reconciliation.global_ej, Frac(PJ_PER_EJ, 1))
      difference == FracAbs(FracSub(global_pj, reconciliation.regional_pj))
  IN  FracLT(FracMul(Frac(5, 100), FracAbs(reconciliation.regional_pj)),
             difference)

\* C19: the reconciliation of the World against the regions compares the
\* global total in EJ x 1000, the scale applied once, with the sum of the
\* regional totals in PJ.  It fails if and only if the two differ by more
\* than 5% (of the regional sum, as np.isclose measures it): a validation
\* that ended without error had no such divergence, a divergence always
\* ends the validation with an error, and the error of the regional check
\* is raised only for a divergence.
C19_RegionalReconciliation ==
  validation # NotRun =>
    /\ RegionalDivergence => Raised(validation)
    /\ RegionalCheckReached => (Raised(validation) <=> RegionalDivergence)

\* C19 witness: the regions, every country counted twice, add up to twice
\* the global total, and the validation has failed on the regional check.
C19_Witness ==
  /\ pc = "failed"
  /\ reconciliation.global_ej.num > 0
  /\ reconciliation.regional_pj =
       FracMul(reconciliation.global_ej, Frac(2 * PJ_PER_EJ, 1))
  /\ validation = Raise("Regional sum /= Global")

(***************************************************************************)
(* Order independence (checked under SpecPar).                             *)
(***************************************************************************)
\* the tiers of one source as the sequential run computes them, from the
\* row and the configuration tables alone
SequentialTier(source) ==
  LET gross == Frac(primary[source]
                      * get_efficiency_factor(source, year, region).value,
                    Scale)
      net == FracMul(gross, Retention)
  IN  [useful_net |-> net,
       services |-> FracMul(net, WeightedExergyOf(source))]

\* the aggregate of the sequential run
SequentialAggregate ==
  AggregateAndCalculate(
    ENERGY_SOURCES,
    [source \in Names(ENERGY_SOURCES) |-> SequentialTier(source).useful_net],
    [source \in Names(ENERGY_SOURCES) |-> SequentialTier(source).services])

\* every column written so far is the one the sequential run writes, and the
\* aggregate, once reduced, is the aggregate of the sequential run
C20_SameAsSequential ==
  /\ \A source \in DOMAIN useful_net :
       useful_net[source] = SequentialTier(source).useful_net
  /\ \A source \in DOMAIN services :
       services[source] = SequentialTier(source).services
  /\ pc = "reduced" => aggregate = SequentialAggregate
  /\ aggregate # NotRun => pc = "reduced"

\* a step leaves the configuration tables and the row as they are and
\* writes no column that was already written
C20_NoInterference ==
  /\ rebound_config' = rebound_config
  /\ sector_allocation' = sector_allocation
  /\ primary' = primary
  /\ \A source \in DOMAIN useful :
       source \in DOMAIN useful' /\ useful'[source] = useful[source]
  /\ \A source \in DOMAIN useful_net :
       source \in DOMAIN useful_net'
         /\ useful_net'[source] = useful_net[source]
  /\ \A source \in DOMAIN services :
       source \in DOMAIN services' /\ services'[source] = services[source]

C21_AdjacentYearsOnly ==
  /\ csvData # NotRun =>
       \A i \in 1 .. Len(csvData.rows) :
         LET row == csvData.rows[i]
             curr == FindYear(timeseries, row.Year)
             prev == FindYear(timeseries, row.Year - 1)
         IN  /\ row.Year # timeseries[1].year
             /\ prev # None
             /\ row.FossilGrowth = toFixed(curr.fossil - prev.fossil, 4)
             /\ row.CleanGrowth = toFixed(curr.clean - prev.clean, 4)
  /\ (metrics # NotRun /\ "year" \in DOMAIN metrics) =>
       LET curr == FindYear(timeseries, metrics.year)
           prev == FindYear(timeseries, metrics.year - 1)
       IN  IF prev = None
           THEN /\ "delta_fossil" \notin DOMAIN metrics
                /\ metrics.net_change_fossil = NaN
           ELSE /\ "delta_fossil" \in DOMAIN metrics
                /\ metrics.net_change_fossil = curr.fossil - prev.fossil

\* the points of the regional chart obey the same rule: a region has a value
\* at a year only when it has a record of that year and of the year before,
\* and the value is the difference of that region's two records
TimelineAdjacentYearsOnly ==
  regionalData # None =>
    LET points == timelineData(regionalData, selectedRegions)
    IN  \A i \in 1 .. Len(points) :
          \A r \in DOMAIN points[i].change :
            LET curr == FindYear(regionalData[r], points[i].year)
                prev == FindYear(regionalData[r], points[i].year - 1)
            IN  /\ Includes(selectedRegions, r)
                /\ curr # None
                /\ prev # None
                /\ points[i].change[r] =
                     FracSub(OrZero(curr.fossil_useful_ej),
                             OrZero(prev.fossil_useful_ej))

(***************************************************************************)
(* Properties of the feedback endpoint (checked under SpecFeedback).       *)
(***************************************************************************)
\* the submissions stored in the file
StoredSubmissions == readFeedback(FEEDBACK_FILE)

\* C22: every stored feedback submission has an id different from the id of
\* every other stored submission, whatever the POST requests were, two
\* requests of the same millisecond and a request whose body has an id
\* member included.
C22_UniqueIds ==
  \A i, j \in 1 .. Len(StoredSubmissions) :
    i # j => StoredSubmissions[i].id # StoredSubmissions[j].id

\* the POST requests acknowledged with success: true, in the order of their
\* 'end' events
Acknowledged ==
  Filter(endEvents,
         LAMBDA r : requests[r].status = 200 /\ requests[r].json.success)

\* the request r completes in this step
Completes(r) ==
  /\ r \in 1 .. Len(requests')
  /\ requests'[r].state = "done"
  /\ (r > Len(requests) \/ requests[r].state # "done")

\* the record is the submission of the request q: the members of its body,
\* under the id it was acknowledged with
RecordOf(record, q) ==
  LET feedbackData == JSONparse(q.body)
  IN  /\ ~Raised(feedbackData)
      /\ record.id = q.json.id
      /\ DOMAIN record = DOMAIN feedbackData.value \cup {"id"}
      /\ \A k \in DOMAIN feedbackData.value \ {"id"} :
           record[k] = feedbackData.value[k]

\* C25: no feedback update is lost under interleaved requests.  In every
\* step the file keeps the records it had, unchanged and in order, and
\* gains exactly one record for each request acknowledged with success:
\* true in the step, the record of that request; the last records of the
\* file are therefore the records of the acknowledged requests in the order
\* of their 'end' events.
C25_NoLostUpdate ==
  /\ [](/\ Len(StoredSubmissions) >= Len(Acknowledged)
        /\ \A k \in 1 .. Len(Acknowledged) :
             RecordOf(StoredSubmissions[Len(StoredSubmissions)
                                          - Len(Acknowledged) + k],
                      requests[Acknowledged[k]]))
  /\ [][LET acknowledged ==
              {r \in 1 .. Len(requests') :
                 /\ Completes(r)
                 /\ requests'[r].method = "POST"
                 /\ requests'[r].status = 200}
        IN  /\ Len(FEEDBACK_FILE') = Len(FEEDBACK_FILE) + Cardinality(acknowledged)
            /\ SubSeq(FEEDBACK_FILE', 1, Len(FEEDBACK_FILE)) = FEEDBACK_FILE
            /\ \A r \in acknowledged :
                 RecordOf(JSONparse(FEEDBACK_FILE'[Len(FEEDBACK_FILE')]).value,
                          requests'[r])]_vars

\* C25 witness: two POSTs were in flight together, the data of the first
\* arrived in two chunks and its 'end' event came after the 'end' event of
\* the second; both are acknowledged and the file holds the earlier record
\* and the two new ones.
C25_Witness ==
  /\ endEvents = <<2, 1>>
  /\ Acknowledged = <<2, 1>>
  /\ Len(FEEDBACK_FILE) = 3
  /\ StoredSubmissions[1].feedback = <<"o", "l", "d">>

Holds(list, text) ==
  \E i \in 1 .. Len(list) : list[i].feedback = trim(text)

\* C23: a submitted non-empty feedback is never lost.  When the fetch of a
\* submission settles, the submission is stored by the server if the answer
\* is ok, and it is the new last entry of the localStorage list if the
\* answer is not ok or fetch threw; in all three cases the modal then has
\* isSubmitted = true, isSubmitting = false and an empty text.  A blank
\* text sends no request and changes no state.
C23_NeverLost ==
  [][/\ (pending # None /\ pending' = None) =>
          /\ response'.kind = "ok" => Holds(readFeedback(FEEDBACK_FILE'),
                                            pending.text)
          /\ response'.kind # "ok" =>
               /\ getStoredFeedback(localStorage') =
                    Append(getStoredFeedback(localStorage),
                           submission(pending.text))
          /\ isSubmitted' /\ ~isSubmitting' /\ feedback' = <<>>
     /\ (fetchCount' # fetchCount \/ isSubmitting' # isSubmitting
           \/ pending' # pending) =>
          (pending # None \/ trim(feedback) # <<>>)]_vars

(***************************************************************************)
(* Properties of the chat endpoint (checked under SpecChat).               *)
(***************************************************************************)
\* the timestamps of a list that lie in the window (t - 60000 ms, t]
InWindow(list, t) ==
  {i \in 1 .. Len(list) : t - RATE_LIMIT_WINDOW < list[i] /\ list[i] <= t}

\* the instants of the model
Instants == {k * TimeStep : k \in 0 .. StepsPerWindow}

\* handleChat has answered a request in this step
Answered == chat' # chat

\* the answer is the limiter's 429
RejectedByLimiter(c) == c.status = 429 /\ ~c.called

\* C24: the rate limiter admits at most 10 requests per identifier in any
\* sliding window of 60 seconds: for every identifier and instant t, at most
\* 10 requests with a timestamp in (t - 60000 ms, t] have passed
\* checkRateLimit; and a POST that arrives when 10 admitted timestamps of
\* its identifier are younger than 60000 ms is answered 429 and the
\* Anthropic API is not called.
C24_SlidingWindow ==
  /\ [](\A identifier \in DOMAIN admitted : \A t \in Instants :
          Cardinality(InWindow(admitted[identifier], t))
            <= MAX_REQUESTS_PER_WINDOW)
  /\ [][(/\ Answered
         /\ chat'.req.method = "POST"
         /\ Cardinality(InWindow(userRequestsOf(admitted, chat'.identifier),
                                 dateNow)) >= MAX_REQUESTS_PER_WINDOW)
          => RejectedByLimiter(chat')]_vars

\* C24 witness: ten requests of the proxied client were admitted at the
\* same instant and its next POST, in the same window, was answered 429
\* without a call of the Anthropic API.
C24_Witness ==
  /\ chat # NotRun
  /\ chat.identifier = "203.0.113.7"
  /\ RejectedByLimiter(chat)
  /\ chat.req.body = CompleteBody
  /\ Len(admitted["203.0.113.7"]) = MAX_REQUESTS_PER_WINDOW
  /\ \A i \in 1 .. MAX_REQUESTS_PER_WINDOW : admitted["203.0.113.7"][i] = 0
  /\ chat.now = TimeStep

\* the body has no messages array or no system prompt
LacksField(body) ==
  body.json /\ (body.messages # "array" \/ body.systemPrompt = "undefined")

\* C26: handleChat checks in a fixed order: method, rate limit, body,
\* upstream call.  A request that is not a POST is answered 405 and consumes
\* no slot of the rate limiter; a POST whose body lacks a messages array or
\* a system prompt is answered 400 without a call of the Anthropic API,
\* after it has consumed one slot (unless the limiter rejected it, and then
\* it is answered 429).
C26_CheckOrder ==
  [][Answered =>
       LET c == chat'
           recent == InWindow(userRequestsOf(rateLimitStore, c.identifier),
                              dateNow)
       IN  /\ c.req.method # "POST" =>
                /\ c.status = 405
                /\ ~c.called
                /\ rateLimitStore' = rateLimitStore
           /\ (c.req.method = "POST" /\ LacksField(c.req.body)) =>
                /\ ~c.called
                /\ IF Cardinality(recent) >= MAX_REQUESTS_PER_WINDOW
                   THEN c.status = 429 /\ rateLimitStore' = rateLimitStore
                   ELSE /\ c.status = 400
                        /\ Len(rateLimitStore'[c.identifier]) =
                             Cardinality(recent) + 1
                        /\ rateLimitStore'[c.identifier][Cardinality(recent) + 1]
                             = dateNow]_vars

\* C26 witness: a POST without a messages array was the first request of
\* its identifier: it was answered 400, no call was made and the store has
\* the request's timestamp.
C26_Witness ==
  /\ chat # NotRun
  /\ chat.req.method = "POST"
  /\ chat.req.body.messages = "undefined"
  /\ chat.status = 400
  /\ ~chat.called
  /\ chat.before = EmptyMap
  /\ rateLimitStore = (chat.identifier :> <<chat.now>>)

\* the oldest timestamp of a list
Oldest(list) ==
  CHOOSE t \in {list[i] : i \in 1 .. Len(list)} :
    \A i \in 1 .. Len(list) : t <= list[i]

\* C27: a request rejected by checkRateLimit leaves rateLimitStore
\* unchanged, and no request modifies the entry of another identifier; an
\* identifier with 10 recorded timestamps is admitted again on its first
\* request made at least 60000 ms after the oldest of them.
C27_RejectionFrame ==
  [][Answered =>
       LET c == chat'
           mine == userRequestsOf(rateLimitStore, c.identifier)
       IN  /\ RejectedByLimiter(c) => rateLimitStore' = rateLimitStore
           /\ \A other \in (DOMAIN rateLimitStore \cup DOMAIN rateLimitStore')
                             \ {c.identifier} :
                /\ other \in DOMAIN rateLimitStore
                /\ other \in DOMAIN rateLimitStore'
                /\ rateLimitStore'[other] = rateLimitStore[other]
           /\ (/\ c.req.method = "POST"
               /\ Len(mine) = MAX_REQUESTS_PER_WINDOW
               /\ dateNow - Oldest(mine) >= RATE_LIMIT_WINDOW) =>
                /\ ~RejectedByLimiter(c)
                /\ rateLimitStore' # rateLimitStore
                /\ c.identifier \in DOMAIN rateLimitStore'
                /\ dateNow \in {rateLimitStore'[c.identifier][i] :
                                  i \in 1 .. Len(rateLimitStore'[c.identifier])}]_vars

\* C27 witness: the proxied client had ten timestamps recorded, the oldest
\* a full window old, the client without an address had an entry, and the
\* proxied client's POST was admitted; the other entry is as it was.
C27_Witness ==
  /\ chat # NotRun
  /\ chat.identifier = "203.0.113.7"
  /\ chat.req.method = "POST"
  /\ chat.status = 200
  /\ "203.0.113.7" \in DOMAIN chat.before
  /\ Len(chat.before["203.0.113.7"]) = MAX_REQUESTS_PER_WINDOW
  /\ chat.now - Oldest(chat.before["203.0.113.7"]) = RATE_LIMIT_WINDOW
  /\ Len(admitted["203.0.113.7"]) > MAX_REQUESTS_PER_WINDOW
  /\ "unknown" \in DOMAIN chat.before
  /\ rateLimitStore["unknown"] = chat.before["unknown"]

(***************************************************************************)
(* The status of a period (checked under SpecDisp).                        *)
(***************************************************************************)
\* C28: the status the DisplacementTracker assigns to a period says what
\* fossil consumption did over it: 'declining' only when the fossil
\* services of the end year are below those of the start year, 'peak' only
\* when they differ by at most 0.5 EJ, 'rising' only when they are above;
\* and every period has exactly one of the four statuses.
C28_StatusMatchesFossil ==
  PeriodDataSet =>
    \A p \in PeriodKeys :
      /\ periodData[p].status
           \in {"recarbonization", "rising", "peak", "declining"}
      /\ periodData[p].status = "declining" => DeltaFossil < 0
      /\ periodData[p].status = "peak" => 2 * Abs(DeltaFossil) <= 1
      /\ periodData[p].status = "rising" => DeltaFossil > 0

(***************************************************************************)
(* The region selection (checked under SpecRegion).                        *)
(***************************************************************************)
\* the list without the region at position i
Without(list, i) == SubSeq(list, 1, i - 1) \o SubSeq(list, i + 1, Len(list))

\* C30: after any sequence of toggleRegion and selectCategory the selection
\* holds between 1 and 8 regions, none twice.  A step changes the selection
\* only by removing one region when more than one is selected, by adding an
\* unselected region when fewer than 8 are selected, or by replacing it with
\* the first regions of a category, at most 8: toggling the only selected
\* region, or an unselected region when 8 are selected, changes nothing.
C30_SelectionBounds ==
  /\ [](/\ Len(selectedRegions) \in 1 .. 8
        /\ \A i, j \in 1 .. Len(selectedRegions) :
             i # j => selectedRegions[i] # selectedRegions[j])
  /\ [][selectedRegions' # selectedRegions =>
          \/ /\ Len(selectedRegions) > 1
             /\ \E i \in 1 .. Len(selectedRegions) :
                  selectedRegions' = Without(selectedRegions, i)
          \/ /\ Len(selectedRegions) < 8
             /\ Len(selectedRegions') = Len(selectedRegions) + 1
             /\ SubSeq(selectedRegions', 1, Len(selectedRegions))
                  = selectedRegions
             /\ ~Includes(selectedRegions,
                          selectedRegions'[Len(selectedRegions')])
          \/ \E category \in DOMAIN REGION_CATEGORIES :
               /\ Len(selectedRegions') <= 8
               /\ Len(selectedRegions')
                    = Min(8, Len(REGION_CATEGORIES[category]))
               /\ selectedRegions'
                    = SubSeq(REGION_CATEGORIES[category], 1,
                             Len(selectedRegions'))]_vars

\* C30 witness: the category of the major economies, 17 regions, was
\* selected: its first 8 regions are shown, and Europe, a region of the
\* toggle buttons, is not among them.
C30_Witness ==
  /\ Len(selectedRegions) = 8
  /\ selectedRegions = SubSeq(REGION_CATEGORIES["Major Economies"], 1, 8)
  /\ Len(REGION_CATEGORIES["Major Economies"]) = 17
  /\ ~Includes(selectedRegions, "Europe")
  /\ "Europe" \in ToggleRegions

====
